---- MODULE Spec2Model ----
(***************************************************************************)
(* CO2 leakage plugin of webviz-subsurface: the data-derivation pipeline.  *)
(*                                                                         *)
(* The groups of operations are modelled each under its own               *)
(* specification over the same variables:                                  *)
(*   SpecAddress  callbacks.derive_surface_address and the map callback    *)
(*                update_map_attribute that calls it;                      *)
(*   SpecColumns  the two column-convention resolvers;                     *)
(*   SpecScale    ContainmentDataProvider.extract_dataframe /              *)
(*                extract_condensed_dataframe / _find_scale_factor,        *)
(*                UnsmryDataProvider.extract, summary_graphs._read_dataframe*)
(*   SpecMenu     ContainmentDataProvider.get_menu_options;                *)
(*   SpecFigure   summary_graphs.generate_summary_figure;                  *)
(*   SpecPolygon  EnsemblePolygonProvider and _parse_polygon_file;         *)
(*   SpecLayers   callbacks.create_map_layers;                             *)
(*   SpecGraphs   callbacks.generate_containment_figures and the graph     *)
(*                callback update_graphs;                                  *)
(*   SpecTables   initialization.init_table_provider;                      *)
(*   SpecInfo     callbacks.process_visualization_info;                    *)
(*   SpecSummed   callbacks.process_summed_mass.                           *)
(*                                                                         *)
(* `call` is the operation last invoked with its arguments, `ret` what it  *)
(* returned or raised.  `table` and `smry` are the rows held by the        *)
(* containment and the summary table provider, `cache` the lru_cache of    *)
(* ContainmentDataProvider._find_scale_factor, `names` the plugin's        *)
(* _map_attribute_names, `files` the polygon files on disk by path and     *)
(* `polygons` the EnsemblePolygonProvider once it is constructed,          *)
(* `warned` the warnings issued so far, `stored_info` the dict that        *)
(* process_visualization_info threads through its calls, `surface_cache`  *)
(* the surfaces held by the flask cache it clears, and `summed_co2` the   *)
(* dict that process_summed_mass threads through its calls.                *)
(***************************************************************************)
EXTENDS Integers, Sequences, FiniteSets, TLC

VARIABLES call, ret, names, table, smry, cache, files, polygons,
          warned, stored_info, surface_cache, summed_co2

vars == <<call, ret, names, table, smry, cache, files, polygons,
         warned, stored_info, surface_cache, summed_co2>>

(***************************************************************************)
(* Python values.  Optional[T]: None is the empty set, a value x is {x}.   *)
(* A raised exception is a record with field exc.                          *)
(***************************************************************************)
None == {}
Some(x) == {x}
IsNone(o) == o = {}
Get(o) == CHOOSE x \in o : TRUE

Raise(name) == [kind |-> "raise", exc |-> name]
Raised(r) == r.kind = "raise"

Range(s) == {s[i] : i \in DOMAIN s}

(***************************************************************************)
(* Floats are modelled exactly, as decimals (n / d) * 10^e in canonical    *)
(* form (n, d coprime, 10 divides neither), so that 1e9 and 1e10 fit the   *)
(* checker's integers.  d = 0 encodes the IEEE results of a division by    *)
(* zero: 1/0 is inf, 0/0 is NaN.  Amounts are never negative.              *)
(***************************************************************************)
RECURSIVE Gcd(_, _)
Gcd(a, b) == IF b = 0 THEN a ELSE Gcd(b, a % b)

RECURSIVE Pow10(_)
Pow10(k) == IF k = 0 THEN 1 ELSE 10 * Pow10(k - 1)

RECURSIVE Canon(_, _, _)
Canon(n, d, e) ==
    IF n = 0 THEN [n |-> 0, d |-> 1, e |-> 0]
    ELSE IF Gcd(n, d) # 1 THEN Canon(n \div Gcd(n, d), d \div Gcd(n, d), e)
    ELSE IF n % 10 = 0 THEN Canon(n \div 10, d, e + 1)
    ELSE IF d % 10 = 0 THEN Canon(n, d \div 10, e - 1)
    ELSE IF d % 2 = 0 THEN Canon(n * 5, d \div 2, e - 1)
    ELSE IF d % 5 = 0 THEN Canon(n * 2, d \div 5, e - 1)
    ELSE [n |-> n, d |-> d, e |-> e]

Dec(n, e) == Canon(n, 1, e)
Zero == Dec(0, 0)
Inf == [n |-> 1, d |-> 0, e |-> 0]
NaN == [n |-> 0, d |-> 0, e |-> 0]
IsFinite(x) == x.d # 0

Min2(a, b) == IF a <= b THEN a ELSE b

\* a + b
FAdd(a, b) ==
    IF a = NaN \/ b = NaN THEN NaN
    ELSE IF a = Inf \/ b = Inf THEN Inf
    ELSE LET e == Min2(a.e, b.e)
         IN  Canon(a.n * b.d * Pow10(a.e - e) + b.n * a.d * Pow10(b.e - e),
                   a.d * b.d, e)

\* a / b as numpy divides: x/0 is inf, 0/0 is NaN, nothing is raised
FDiv(a, b) ==
    IF a = NaN \/ b = NaN THEN NaN
    ELSE IF a = Inf THEN (IF b = Inf THEN NaN ELSE Inf)
    ELSE IF b = Inf THEN Zero
    ELSE IF b = Zero THEN (IF a = Zero THEN NaN ELSE Inf)
    ELSE Canon(a.n * b.d, a.d * b.n, a.e - b.e)

\* a <= b on finite values
FLeq(a, b) ==
    LET e == Min2(a.e, b.e)
    IN  a.n * b.d * Pow10(a.e - e) <= b.n * a.d * Pow10(b.e - e)

\* Series.max(): the greatest value; NaN for an empty series.  NaN entries
\* are skipped and inf is the greatest.
FMax(S) ==
    LET T == S \ {NaN}
    IN  IF T = {} THEN NaN
        ELSE IF Inf \in T THEN Inf
        ELSE CHOOSE m \in T : \A x \in T : FLeq(x, m)

\* abs(a - b)
FAbsDiff(a, b) ==
    IF a = NaN \/ b = NaN THEN NaN
    ELSE IF a = Inf \/ b = Inf THEN (IF a = b THEN NaN ELSE Inf)
    ELSE LET e == Min2(a.e, b.e)
             x == a.n * b.d * Pow10(a.e - e)
             y == b.n * a.d * Pow10(b.e - e)
         IN  Canon(IF x <= y THEN y - x ELSE x - y, a.d * b.d, e)

\* a * b, a finite and positive
FMul(a, b) ==
    IF b = NaN \/ b = Inf THEN b
    ELSE Canon(a.n * b.n, a.d * b.d, a.e + b.e)

\* np.round(x, 2): to the nearest hundredth, a tie to the even one; inf
\* and NaN stay as they are
Round2(x) ==
    IF ~IsFinite(x) THEN x
    ELSE LET N == IF x.e + 2 >= 0 THEN x.n * Pow10(x.e + 2) ELSE x.n
             D == IF x.e + 2 >= 0 THEN x.d ELSE x.d * Pow10(0 - (x.e + 2))
             q == N \div D
             r == N % D
         IN  Dec(IF 2 * r < D THEN q
                 ELSE IF 2 * r > D THEN q + 1
                 ELSE IF q % 2 = 0 THEN q ELSE q + 1, -2)

(***************************************************************************)
(*                      Surface address derivation                         *)
(***************************************************************************)
MaxRealization == 3

MigrationTimeAttributes == {"MIGRATION_TIME_SGAS", "MIGRATION_TIME_AMFG"}
PlumeAttributes == {"SGAS_PLUME", "AMFG_PLUME"}
MassAttributes == {"MASS", "DISSOLVED", "FREE"}
MapAttribute ==
    MigrationTimeAttributes \cup {"MAX_SGAS", "MAX_AMFG"}
        \cup PlumeAttributes \cup MassAttributes

\* init_map_attribute_names(None)
DefaultAttributeNames ==
    [a \in MapAttribute \ PlumeAttributes |->
        CASE a = "MIGRATION_TIME_SGAS" -> "migrationtime_sgas"
          [] a = "MIGRATION_TIME_AMFG" -> "migrationtime_amfg"
          [] a = "MAX_SGAS" -> "max_sgas"
          [] a = "MAX_AMFG" -> "max_amfg"
          [] a = "MASS" -> "co2-mass-total"
          [] a = "DISSOLVED" -> "co2-mass-aqu-phase"
          [] a = "FREE" -> "co2-mass-gas-phase"]

\* The `map_attribute_names` a configuration file may give: every attribute
\* renamed, only some attributes named, a plume attribute named as well.
UserMappings ==
    { [a \in MapAttribute \ PlumeAttributes |-> "user_" \o DefaultAttributeNames[a]],
      [a \in {"MAX_SGAS", "MASS"} |-> DefaultAttributeNames[a]],
      [a \in MapAttribute \ {"AMFG_PLUME"} |->
          IF a = "SGAS_PLUME" THEN "sgas_plume" ELSE DefaultAttributeNames[a]] }

init_map_attribute_names(mapping) ==
    IF IsNone(mapping) THEN DefaultAttributeNames ELSE Get(mapping)

SurfaceStatisticValues == {"Mean", "StdDev", "Min", "Max", "P10", "P90"}

\* SurfaceStatistic(statistic): the member with that value, else ValueError
SurfaceStatistic(statistic) ==
    IF statistic \in SurfaceStatisticValues
    THEN [kind |-> "SurfaceStatistic", value |-> statistic]
    ELSE Raise("ValueError")

\* `if contour_data`: None and the empty dict are falsy
Truthy(contour_data) ==
    ~IsNone(contour_data) /\ DOMAIN Get(contour_data) # {}

\* Variants of derive_surface_address with one branch changed. ----------------
\* the realization-count check placed before the contour check
derive_surface_address_count_first(surface_name, attribute, date, realization, map_attribute_names, statistic, contour_data) ==
    IF Len(realization) = 1 /\ attribute \in PlumeAttributes
    THEN IF "MAX_SGAS" \notin DOMAIN map_attribute_names THEN Raise("KeyError")
         ELSE [kind |-> "Simulated",
               attribute |-> map_attribute_names["MAX_SGAS"],
               name |-> surface_name,
               datestr |-> date,
               realization |-> realization[1]]
    ELSE IF attribute \in PlumeAttributes
    THEN LET basis == IF attribute = "SGAS_PLUME" THEN "MAX_SGAS" ELSE "MAX_AMFG"
         IN  IF IsNone(date) THEN Raise("AssertionError")
             ELSE IF basis \notin DOMAIN map_attribute_names THEN Raise("KeyError")
             ELSE IF Truthy(contour_data)
                     /\ {"threshold", "smoothing"} \ DOMAIN Get(contour_data) # {}
                  THEN Raise("KeyError")
             ELSE [kind |-> "Truncated",
                   name |-> surface_name,
                   datestr |-> date,
                   realizations |-> realization,
                   basis_attribute |-> map_attribute_names[basis],
                   threshold |-> IF Truthy(contour_data)
                                 THEN Get(contour_data)["threshold"]
                                 ELSE Some(Zero),
                   smoothing |-> IF Truthy(contour_data)
                                 THEN Get(contour_data)["smoothing"]
                                 ELSE Some(Zero)]
    ELSE LET date2 == IF attribute \in MigrationTimeAttributes THEN None ELSE date
         IN  IF attribute \notin DOMAIN map_attribute_names THEN Raise("KeyError")
             ELSE IF Len(realization) = 1
             THEN [kind |-> "Simulated",
                   attribute |-> map_attribute_names[attribute],
                   name |-> surface_name,
                   datestr |-> date2,
                   realization |-> realization[1]]
             ELSE IF Raised(SurfaceStatistic(statistic)) THEN SurfaceStatistic(statistic)
             ELSE [kind |-> "Statistical",
                   attribute |-> map_attribute_names[attribute],
                   name |-> surface_name,
                   datestr |-> date2,
                   statistic |-> SurfaceStatistic(statistic),
                   realizations |-> realization]

\* the date dropped for MIGRATION_TIME_SGAS only
time_slice_one_migration(attribute, date) ==
    IF attribute = "MIGRATION_TIME_SGAS" THEN None ELSE date

\* `date = None if attribute in [MIGRATION_TIME_SGAS, MIGRATION_TIME_AMFG] else date`
time_slice(attribute, date) ==
    IF attribute \in MigrationTimeAttributes THEN None ELSE date

\* `len(realization) >= 1` in place of `len(realization) == 1`
at_least_one_realization(realization) == Len(realization) >= 1

\* `len(realization) == 1`
single_realization(realization) == Len(realization) = 1

\* callbacks.derive_surface_address -------------------------------------------
derive_surface_address(surface_name, attribute, date, realization, map_attribute_names, statistic, contour_data) ==
    IF attribute \in PlumeAttributes
    THEN LET basis == IF attribute = "SGAS_PLUME" THEN "MAX_SGAS" ELSE "MAX_AMFG"
         IN  IF IsNone(date) THEN Raise("AssertionError")
             ELSE IF basis \notin DOMAIN map_attribute_names THEN Raise("KeyError")
             ELSE IF Truthy(contour_data)
                     /\ {"threshold", "smoothing"} \ DOMAIN Get(contour_data) # {}
                  THEN Raise("KeyError")
             ELSE [kind |-> "Truncated",
                   name |-> surface_name,
                   datestr |-> date,
                   realizations |-> realization,
                   basis_attribute |-> map_attribute_names[basis],
                   threshold |-> IF Truthy(contour_data)
                                 THEN Get(contour_data)["threshold"]
                                 ELSE Some(Zero),
                   smoothing |-> IF Truthy(contour_data)
                                 THEN Get(contour_data)["smoothing"]
                                 ELSE Some(Zero)]
    ELSE LET date2 == time_slice(attribute, date)
         IN  IF attribute \notin DOMAIN map_attribute_names THEN Raise("KeyError")
             ELSE IF single_realization(realization)
             THEN [kind |-> "Simulated",
                   attribute |-> map_attribute_names[attribute],
                   name |-> surface_name,
                   datestr |-> date2,
                   realization |-> realization[1]]
             ELSE IF Raised(SurfaceStatistic(statistic)) THEN SurfaceStatistic(statistic)
             ELSE [kind |-> "Statistical",
                   attribute |-> map_attribute_names[attribute],
                   name |-> surface_name,
                   datestr |-> date2,
                   statistic |-> SurfaceStatistic(statistic),
                   realizations |-> realization]

\* Returns [kind |-> "ok", value |-> <the name>] or the exception raised.
property_origin(attribute, map_attribute_names) ==
    LET Ok(key) == IF key \in DOMAIN map_attribute_names
                   THEN [kind |-> "ok", value |-> map_attribute_names[key]]
                   ELSE Raise("KeyError")
    IN  IF attribute \in DOMAIN map_attribute_names THEN Ok(attribute)
        ELSE IF attribute = "SGAS_PLUME" THEN Ok("MAX_SGAS")
        ELSE IF attribute = "AMFG_PLUME" THEN Ok("MAX_AMFG")
        ELSE Raise("AssertionError")

\* ---- inputs
RealizationLists ==
    {s \in UNION {[1..n -> 1..MaxRealization] : n \in 0..MaxRealization} :
        \A i, j \in DOMAIN s : i # j => s[i] # s[j]}
Dates == {"2020-01-01", "2030-01-01"}
\* what the surface provider lists for the MAX_SGAS attribute
EnsembleDates == <<"2020-01-01", "2030-01-01">>
Formations == {"topvolantis"}
Ensembles == {"iter-0"}
Statistics == {"Mean", "P10", "Median"}
Thresholds == {None, Some(Dec(3, -1))}
ContourDicts ==
    {<<>>}
      \cup [property : {"max_sgas"}, threshold : Thresholds, smoothing : Thresholds]
      \cup [property : {"max_sgas"}, threshold : {Some(Dec(3, -1))}]
ContourData == {None} \cup {Some(d) : d \in ContourDicts}

NoCall == [op |-> "none"]
NoTable == <<>>
\* no polygon file on disk
NoFiles == [path \in {} |-> <<>>]
\* the lru_cache of _find_scale_factor, nothing cached yet
NoCache == [s \in {} |-> Zero]
\* no warning issued yet
NoWarnings == <<>>
\* the visualization-info store before the session has written to it
NoInfo == [change |-> FALSE, n_clicks |-> 0, unit |-> "tons", threshold |-> None]
\* the surface server's cache, nothing published yet
NoSurfaces == {}
\* the store of summed masses, nothing summed yet
NoSums == [key \in {} |-> Zero]

InitAddress ==
    /\ call = NoCall
    /\ ret = NoCall
    /\ \E mapping \in {None} \cup {Some(m) : m \in UserMappings} :
          names = init_map_attribute_names(mapping)
    /\ table = NoTable
    /\ smry = NoTable
    /\ cache = NoCache
    /\ warned = NoWarnings
    /\ stored_info = NoInfo
    /\ surface_cache = NoSurfaces
    /\ summed_co2 = NoSums
    /\ files = NoFiles
    /\ polygons = None

\* The plugin is single-threaded and request/response driven: an operation
\* starts when none is under way, and Return hands its result back.
Idle == call = NoCall

Return ==
    /\ ~Idle
    /\ call' = NoCall
    /\ ret' = NoCall
    /\ UNCHANGED <<names, table, smry, cache, files, polygons,
                 warned, stored_info, surface_cache, summed_co2>>

\* a direct call of derive_surface_address
DeriveSurfaceAddress ==
    /\ Idle
    /\ \E attribute \in MapAttribute, date \in {None} \cup {Some(d) : d \in Dates},
       realization \in RealizationLists, statistic \in Statistics,
       contour_data \in ContourData, formation \in Formations :
      /\ call' = [op |-> "derive_surface_address", surface_name |-> formation,
                  attribute |-> attribute, date |-> date,
                  realization |-> realization, statistic |-> statistic,
                  contour_data |-> contour_data]
      /\ ret' = derive_surface_address(formation, attribute, date, realization,
                                       names, statistic, contour_data)
      /\ UNCHANGED <<names, table, smry, cache, files, polygons,
                 warned, stored_info, surface_cache, summed_co2>>

\* the callback without its guard on the number of realizations
update_map_attribute_any_count(attribute, date, formation, realization, statistic, plume_threshold, plume_smoothing, ensemble) ==
    IF IsNone(ensemble) THEN Raise("PreventUpdate")
    ELSE IF "MAX_SGAS" \notin DOMAIN names THEN Raise("KeyError")
    ELSE LET datestr == EnsembleDates[date + 1]
             origin == property_origin(attribute, names)
             contour_data ==
                 IF attribute \in PlumeAttributes
                 THEN Some([property |-> origin.value,
                            threshold |-> plume_threshold,
                            smoothing |-> plume_smoothing])
                 ELSE None
             address ==
                 derive_surface_address(Get(formation), attribute, Some(datestr),
                                        realization, names, statistic, contour_data)
         IN  IF attribute \in PlumeAttributes /\ Raised(origin) THEN origin
             ELSE IF IsNone(formation) \/ Len(realization) = 0
             THEN [kind |-> "map", datestr |-> datestr,
                   contour_data |-> contour_data, address |-> None]
             ELSE IF Raised(address) THEN address
             ELSE [kind |-> "map", datestr |-> datestr,
                   contour_data |-> contour_data, address |-> Some(address)]

\* the map callback, up to the address it hands to the surface server
update_map_attribute(attribute, date, formation, realization, statistic, plume_threshold, plume_smoothing, ensemble) ==
    IF Len(realization) = 0 THEN Raise("PreventUpdate")
    ELSE IF IsNone(ensemble) THEN Raise("PreventUpdate")
    ELSE IF "MAX_SGAS" \notin DOMAIN names THEN Raise("KeyError")
    ELSE LET datestr == EnsembleDates[date + 1]
             origin == property_origin(attribute, names)
             contour_data ==
                 IF attribute \in PlumeAttributes
                 THEN Some([property |-> origin.value,
                            threshold |-> plume_threshold,
                            smoothing |-> plume_smoothing])
                 ELSE None
             address ==
                 derive_surface_address(Get(formation), attribute, Some(datestr),
                                        realization, names, statistic, contour_data)
         IN  IF attribute \in PlumeAttributes /\ Raised(origin) THEN origin
             ELSE IF IsNone(formation) \/ Len(realization) = 0
             THEN [kind |-> "map", datestr |-> datestr,
                   contour_data |-> contour_data, address |-> None]
             ELSE IF Raised(address) THEN address
             ELSE [kind |-> "map", datestr |-> datestr,
                   contour_data |-> contour_data, address |-> Some(address)]

UpdateMapAttribute ==
    /\ Idle
    /\ \E attribute \in MapAttribute, date \in 0..(Len(EnsembleDates) - 1),
       formation \in {None} \cup {Some(f) : f \in Formations},
       realization \in RealizationLists,
       statistic \in Statistics \cap SurfaceStatisticValues,
       plume_threshold \in Thresholds, plume_smoothing \in Thresholds,
       ensemble \in {None} \cup {Some(e) : e \in Ensembles} :
      /\ call' = [op |-> "update_map_attribute", attribute |-> attribute,
                  date |-> date, formation |-> formation,
                  realization |-> realization, statistic |-> statistic,
                  plume_threshold |-> plume_threshold,
                  plume_smoothing |-> plume_smoothing, ensemble |-> ensemble]
      /\ ret' = update_map_attribute(attribute, date, formation, realization,
                                     statistic, plume_threshold, plume_smoothing,
                                     ensemble)
      /\ UNCHANGED <<names, table, smry, cache, files, polygons,
                 warned, stored_info, surface_cache, summed_co2>>

NextAddress == DeriveSurfaceAddress \/ UpdateMapAttribute \/ Return

SpecAddress == InitAddress /\ [][NextAddress]_vars

(***************************************************************************)
(* Claims about the surface address (checked under SpecAddress).           *)
(***************************************************************************)
IsDerive == call.op = "derive_surface_address"
IsMapUpdate == call.op = "update_map_attribute"
Basis(attribute) == IF attribute = "SGAS_PLUME" THEN "MAX_SGAS" ELSE "MAX_AMFG"
\* contour_data is absent, empty, or holds both threshold and smoothing
Complete(contour_data) ==
    Truthy(contour_data) => {"threshold", "smoothing"} \subseteq DOMAIN Get(contour_data)
\* the address the map callback handed on, if it derived one
MapAddressed == IsMapUpdate /\ ~Raised(ret) /\ ~IsNone(ret.address)

\* C1: for a plume attribute the contour check comes before the realization
\* count.  The result is never a Simulated or Statistical address, whatever
\* the realization list; with a date, a mapping that names the basis
\* attribute and a complete contour_data an address is returned, and it is
\* Truncated with the caller's date, the full realization list and the
\* mapped name of MAX_SGAS (SGAS_PLUME) or MAX_AMFG (AMFG_PLUME).  The map
\* callback hands on such an address for a plume attribute as well.
C1_ContourPrecedence ==
    /\ (IsDerive /\ call.attribute \in PlumeAttributes) =>
          /\ ret.kind \in {"Truncated", "raise"}
          /\ (~IsNone(call.date) /\ Basis(call.attribute) \in DOMAIN names
                 /\ Complete(call.contour_data)) => ret.kind = "Truncated"
          /\ ret.kind = "Truncated" =>
                /\ ret.datestr = call.date
                /\ ~IsNone(ret.datestr)
                /\ ret.realizations = call.realization
                /\ ret.basis_attribute = names[Basis(call.attribute)]
                /\ ret.name = call.surface_name
    /\ (MapAddressed /\ call.attribute \in PlumeAttributes) =>
          /\ Get(ret.address).kind = "Truncated"
          /\ Get(ret.address).datestr = Some(EnsembleDates[call.date + 1])
          /\ Get(ret.address).realizations = call.realization
          /\ Get(ret.address).basis_attribute = names[Basis(call.attribute)]

C1_Witness ==
    /\ IsDerive
    /\ call.attribute = "AMFG_PLUME"
    /\ Len(call.realization) = 1
    /\ ret.kind = "Truncated"
    /\ ret.basis_attribute = "user_max_amfg"

\* C2: for a non-contour attribute the returned address has no date exactly
\* when the attribute is a migration-time kind (given that the caller
\* supplied a date), and for every other attribute the caller's date is
\* carried through unchanged, with one realization or many.
C2_MigrationTimeDate ==
    /\ (IsDerive /\ call.attribute \notin PlumeAttributes /\ ~Raised(ret)) =>
          /\ call.attribute \in MigrationTimeAttributes => IsNone(ret.datestr)
          /\ call.attribute \notin MigrationTimeAttributes => ret.datestr = call.date
          /\ ~IsNone(call.date) =>
                (IsNone(ret.datestr) <=> call.attribute \in MigrationTimeAttributes)
    /\ (MapAddressed /\ call.attribute \notin PlumeAttributes) =>
          /\ IsNone(Get(ret.address).datestr)
                <=> call.attribute \in MigrationTimeAttributes
          /\ call.attribute \notin MigrationTimeAttributes =>
                Get(ret.address).datestr = Some(EnsembleDates[call.date + 1])

C2_Witness ==
    /\ IsDerive
    /\ call.attribute = "MIGRATION_TIME_AMFG"
    /\ call.date = Some("2030-01-01")
    /\ call.realization = <<1, 2, 3>>
    /\ ret.kind = "Statistical"
    /\ IsNone(ret.datestr)

\* C3: one address of one variant is returned, and for a non-contour
\* attribute the realization count alone selects it: Simulated, holding the
\* single realization, exactly when one realization is requested; otherwise
\* Statistical, holding the requested statistic and the full realization
\* list.  An address is returned whenever the mapping names the attribute
\* (and, for a Statistical address, the statistic is one of the reducer's).
C3_VariantByCount ==
    (IsDerive /\ call.attribute \notin PlumeAttributes) =>
      /\ ret.kind \in {"Simulated", "Statistical", "raise"}
      /\ (call.attribute \in DOMAIN names
             /\ (Len(call.realization) = 1
                    \/ call.statistic \in SurfaceStatisticValues)) => ~Raised(ret)
      /\ ~Raised(ret) =>
            /\ ret.kind = "Simulated" <=> Len(call.realization) = 1
            /\ ret.attribute = names[call.attribute]
            /\ ret.kind = "Simulated" => ret.realization = call.realization[1]
            /\ ret.kind = "Statistical" =>
                  /\ ret.statistic.value = call.statistic
                  /\ ret.realizations = call.realization

C3_Witness ==
    /\ IsDerive
    /\ call.attribute = "MAX_SGAS"
    /\ call.statistic = "P10"
    /\ Len(call.realization) = 2
    /\ ret.kind = "Statistical"
    /\ ret.realizations = call.realization

\* C4: the Truncated address never carries None as threshold or smoothing:
\* when contour_data is missing, or the threshold (smoothing) was not
\* supplied, as when the map callback passes an unset plume threshold
\* (smoothing), the address carries 0.0 for it.
C4_ThresholdDefaults ==
    /\ (IsDerive /\ ret.kind = "Truncated") =>
          /\ ~IsNone(ret.threshold) /\ ~IsNone(ret.smoothing)
          /\ ~Truthy(call.contour_data) =>
                ret.threshold = Some(Zero) /\ ret.smoothing = Some(Zero)
    /\ (MapAddressed /\ call.attribute \in PlumeAttributes) =>
          /\ Get(ret.address).threshold =
                (IF IsNone(call.plume_threshold) THEN Some(Zero)
                 ELSE call.plume_threshold)
          /\ Get(ret.address).smoothing =
                (IF IsNone(call.plume_smoothing) THEN Some(Zero)
                 ELSE call.plume_smoothing)


\* C23: a map update with no realization selected raises the no-update
\* signal, whatever the other inputs are (no ensemble, any date, any
\* attribute mapping): nothing is looked up, derived or returned in place
\* of the layers shown, and the callback never has derive_surface_address
\* build a Statistical address over an empty realization list.
C23_NoRealizationNoUpdate ==
    /\ (IsMapUpdate /\ Len(call.realization) = 0) => ret = Raise("PreventUpdate")
    /\ (MapAddressed /\ Get(ret.address).kind = "Statistical") =>
          Len(Get(ret.address).realizations) > 0

\* no realization, with an ensemble and a formation selected
C23_Witness ==
    /\ IsMapUpdate
    /\ call.realization = <<>>
    /\ ~IsNone(call.ensemble)
    /\ ~IsNone(call.formation)
    /\ ret = Raise("PreventUpdate")

(***************************************************************************)
(*                      Column-convention resolvers                        *)
(***************************************************************************)
\* (date, dissolved, trapped, mobile)
PflotranNames == <<"DATE", "FGMDS", "FGMTR", "FGMGP">>
EclipseNames == <<"DATE", "FWCD", "FGCDI", "FGCDM">>

\* `raise KeyError(f"Could not find suitable data columns among: ...")`
NoSuitableColumns(existing) ==
    [kind |-> "raise", exc |-> "KeyError", among |-> existing]

\* the Eclipse names tried before the PFLOTRAN names
provider_column_subset_unsmry_eclipse_first(column_names) ==
    LET existing == Range(column_names)
    IN  IF Range(EclipseNames) \subseteq existing
        THEN [kind |-> "tuple", value |-> EclipseNames]
        ELSE IF Range(PflotranNames) \subseteq existing
        THEN [kind |-> "tuple", value |-> PflotranNames]
        ELSE NoSuitableColumns(existing)

\* UnsmryDataProvider._column_subset_unsmry
provider_column_subset_unsmry(column_names) ==
    LET existing == Range(column_names)
    IN  IF Range(PflotranNames) \subseteq existing
        THEN [kind |-> "tuple", value |-> PflotranNames]
        ELSE IF Range(EclipseNames) \subseteq existing
        THEN [kind |-> "tuple", value |-> EclipseNames]
        ELSE NoSuitableColumns(existing)

\* _ColumnNames(time, dissolved, trapped, mobile)
ColumnNames(time, dissolved, trapped, mobile) ==
    [kind |-> "_ColumnNames", time |-> time, dissolved |-> dissolved,
     trapped |-> trapped, mobile |-> mobile]

\* _ColumnNames.values()
ColumnNamesValues(c) == {c.time, c.dissolved, c.trapped, c.mobile}

\* summary_graphs._column_subset_unsmry
column_subset_unsmry(column_names) ==
    LET existing == Range(column_names)
        pflotran == ColumnNames("DATE", "FGMDS", "FGMTR", "FGMGP")
        eclipse == ColumnNames("DATE", "FWCD", "FGCDI", "FGCDM")
    IN  IF "DATE" \notin existing THEN Raise("AssertionError")
        ELSE IF ColumnNamesValues(pflotran) \subseteq existing THEN pflotran
        ELSE IF ColumnNamesValues(eclipse) \subseteq existing THEN eclipse
        ELSE NoSuitableColumns(existing)

\* ---- inputs: what provider.column_names() may list, in either order
ColumnUniverse ==
    <<"DATE", "FGMDS", "FGMTR", "FGMGP", "FWCD", "FGCDI", "FGCDM", "YEARS", "FOPT">>
Reverse(s) == [i \in DOMAIN s |-> s[Len(s) + 1 - i]]
Picked(s, S) == LET In(x) == x \in S IN SelectSeq(s, In)
ColumnLists ==
    {Picked(ColumnUniverse, S) : S \in SUBSET Range(ColumnUniverse)}
      \cup {Picked(Reverse(ColumnUniverse), S) : S \in SUBSET Range(ColumnUniverse)}

InitColumns ==
    /\ call = NoCall
    /\ ret = NoCall
    /\ names = DefaultAttributeNames
    /\ table = NoTable
    /\ smry = NoTable
    /\ cache = NoCache
    /\ warned = NoWarnings
    /\ stored_info = NoInfo
    /\ surface_cache = NoSurfaces
    /\ summed_co2 = NoSums
    /\ files = NoFiles
    /\ polygons = None

\* UnsmryDataProvider.__init__ resolving the columns of its provider
ResolveProviderColumns ==
    /\ Idle
    /\ \E column_names \in ColumnLists :
         /\ call' = [op |-> "UnsmryDataProvider._column_subset_unsmry",
                     column_names |-> column_names]
         /\ ret' = provider_column_subset_unsmry(column_names)
    /\ UNCHANGED <<names, table, smry, cache, files, polygons,
                 warned, stored_info, surface_cache, summed_co2>>

\* generate_summary_figure resolving the columns of the summary table
ResolveSummaryColumns ==
    /\ Idle
    /\ \E column_names \in ColumnLists :
         /\ call' = [op |-> "summary_graphs._column_subset_unsmry",
                     column_names |-> column_names]
         /\ ret' = column_subset_unsmry(column_names)
    /\ UNCHANGED <<names, table, smry, cache, files, polygons,
                 warned, stored_info, surface_cache, summed_co2>>

NextColumns == ResolveProviderColumns \/ ResolveSummaryColumns \/ Return

SpecColumns == InitColumns /\ [][NextColumns]_vars

(***************************************************************************)
(* Claims about the resolvers (checked under SpecColumns).                 *)
(***************************************************************************)
IsResolve ==
    call.op \in {"UnsmryDataProvider._column_subset_unsmry",
                 "summary_graphs._column_subset_unsmry"}
Available == Range(call.column_names)
\* the convention returned, as (date, dissolved, trapped, mobile)
Convention(r) ==
    IF r.kind = "tuple" THEN r.value
    ELSE <<r.time, r.dissolved, r.trapped, r.mobile>>

\* C9: the resolver returns the first convention, PFLOTRAN before Eclipse,
\* whose four columns are all available: PFLOTRAN when (DATE, FGMDS, FGMTR,
\* FGMGP) are available, else Eclipse when (DATE, FWCD, FGCDI, FGCDM) are;
\* with the full Eclipse tuple and no complete PFLOTRAN tuple available it
\* returns Eclipse whatever else is listed.  The result is fixed by the
\* set of available names, not by the order they are listed in.
C9_FirstContainedConvention ==
    IsResolve =>
      /\ Range(PflotranNames) \subseteq Available =>
            ~Raised(ret) /\ Convention(ret) = PflotranNames
      /\ (Range(EclipseNames) \subseteq Available
             /\ ~(Range(PflotranNames) \subseteq Available)) =>
            ~Raised(ret) /\ Convention(ret) = EclipseNames
      /\ ~Raised(ret) =>
            /\ Convention(ret) \in {PflotranNames, EclipseNames}
            /\ Range(Convention(ret)) \subseteq Available

C9_Witness ==
    /\ IsResolve
    /\ Available = Range(EclipseNames) \cup {"FGMDS", "FGMTR", "YEARS"}
    /\ call.column_names[1] = "FOPT" \/ call.column_names[1] = "YEARS"
    /\ ~Raised(ret)
    /\ Convention(ret) = EclipseNames

\* C10: when neither convention's tuple is fully available (a part of a
\* tuple only, or no DATE column), either resolver fails with the error that
\* lists the available columns, and returns no convention.
C10_SchemaMismatch ==
    (IsResolve /\ ~(Range(PflotranNames) \subseteq Available)
        /\ ~(Range(EclipseNames) \subseteq Available)) =>
      /\ Raised(ret)
      /\ ret.exc = "KeyError"
      /\ ret.among = Available

(***************************************************************************)
(*                         Scaling of the amounts                          *)
(***************************************************************************)
MaxRows == 2
MaxSmryRows == 2

\* Co2MassScale
Scales == {"KG", "MTONS", "NORMALIZE"}

One == Dec(1, 0)

\* ---- the table provider (EnsembleTableProvider): the rows of all the
\* realizations, each with its REAL.  A read hands out a new frame holding
\* the rows of the realizations asked for and the columns asked for.
get_column_data(rows, columns, realizations) ==
    LET Asked(r) == r.REAL \in realizations
        picked == SelectSeq(rows, Asked)
    IN  [i \in DOMAIN picked |-> [c \in columns \cup {"REAL"} |-> picked[i][c]]]

RECURSIVE Ascending(_)
Ascending(S) ==
    IF S = {} THEN <<>>
    ELSE LET m == CHOOSE x \in S : \A y \in S : x <= y
         IN  <<m>> \o Ascending(S \ {m})

\* provider.realizations()
provider_realizations(rows) == Ascending({rows[i].REAL : i \in DOMAIN rows})

AllRealizations(rows) == {rows[i].REAL : i \in DOMAIN rows}

\* provider.column_names() of the containment table
ContainmentColumns == {"date", "zone", "region", "phase", "amount", "total"}

\* df[column].max()
ColumnMax(df, column) == FMax({df[i][column] : i \in DOMAIN df})

\* df[column] / divisor, the other columns kept
DivideColumn(df, column, divisor) ==
    [i \in DOMAIN df |-> [df[i] EXCEPT ![column] = FDiv(@, divisor)]]

\* MTONS dividing by 1e6
find_scale_factor_mega_1e6(scale, rows) ==
    IF scale = "KG" THEN One
    ELSE IF scale = "MTONS" THEN Dec(1, 6)
    ELSE IF scale = "NORMALIZE"
    THEN ColumnMax(get_column_data(rows, {"total"}, AllRealizations(rows)), "total")
    ELSE One

\* ContainmentDataProvider._find_scale_factor, a cache miss
find_scale_factor(scale, rows) ==
    IF scale = "KG" THEN One
    ELSE IF scale = "MTONS" THEN Dec(1, 9)
    ELSE IF scale = "NORMALIZE"
    THEN ColumnMax(get_column_data(rows, {"total"}, AllRealizations(rows)), "total")
    ELSE One

\* @lru_cache: the factor cached for the scale, else the one computed now
cached_scale_factor(scale, lru, rows) ==
    IF scale \in DOMAIN lru THEN lru[scale] ELSE find_scale_factor(scale, rows)

lru_after(scale, lru, rows) ==
    [s \in DOMAIN lru \cup {scale} |-> cached_scale_factor(s, lru, rows)]

\* ContainmentDataProvider.extract_dataframe
extract_dataframe(realization, scale, lru, rows) ==
    LET df == get_column_data(rows, ContainmentColumns, {realization})
        scale_factor == cached_scale_factor(scale, lru, rows)
    IN  IF scale_factor = One THEN df
        ELSE DivideColumn(df, "amount", scale_factor)

\* the filter keeping a row when its zone or its region is "all"
extract_condensed_dataframe_either(co2_scale, rows) ==
    LET all == get_column_data(rows, ContainmentColumns, AllRealizations(rows))
        Whole(r) == r.zone = "all" \/ r.region = "all"
        df == SelectSeq(all, Whole)
    IN  IF co2_scale = "MTONS" THEN DivideColumn(df, "amount", Dec(1, 9))
        ELSE IF co2_scale = "NORMALIZE"
        THEN DivideColumn(df, "amount", ColumnMax(df, "total"))
        ELSE df

\* ContainmentDataProvider.extract_condensed_dataframe
extract_condensed_dataframe(co2_scale, rows) ==
    LET all == get_column_data(rows, ContainmentColumns, AllRealizations(rows))
        Whole(r) == r.zone = "all" /\ r.region = "all"
        df == SelectSeq(all, Whole)
    IN  IF co2_scale = "MTONS" THEN DivideColumn(df, "amount", Dec(1, 9))
        ELSE IF co2_scale = "NORMALIZE"
        THEN DivideColumn(df, "amount", ColumnMax(df, "total"))
        ELSE df

\* pd.concat([get_column_data(columns, [real]).assign(realization=real) ...])
RECURSIVE ConcatRealizations(_, _, _)
ConcatRealizations(rows, columns, reals) ==
    IF reals = <<>> THEN <<>>
    ELSE LET part == get_column_data(rows, columns, {Head(reals)})
         IN  [i \in DOMAIN part |->
                 [c \in DOMAIN part[i] \cup {"realization"} |->
                     IF c = "realization" THEN Head(reals) ELSE part[i][c]]]
               \o ConcatRealizations(rows, columns, Tail(reals))

\* full[name] = full[dissolved] + full[trapped] + full[mobile]
WithTotal(df, name) ==
    [i \in DOMAIN df |->
        [c \in DOMAIN df[i] \cup {name} |->
            IF c = name
            THEN FAdd(FAdd(df[i].dissolved, df[i].trapped), df[i].mobile)
            ELSE df[i][c]]]

\* list(columns.values()): the summary columns, named by their roles
SummaryColumns == {"DATE", "dissolved", "trapped", "mobile"}

\* UnsmryDataProvider.extract
unsmry_extract(scale, rows) ==
    LET full0 == ConcatRealizations(rows, SummaryColumns, provider_realizations(rows))
        full == WithTotal(full0, "TOTAL")
        total_max == ColumnMax(full, "TOTAL")
        by == IF scale = "MTONS" THEN Dec(1, 9) ELSE total_max
        f1 == DivideColumn(full, "dissolved", by)
        f2 == DivideColumn(f1, "trapped", by)
        f3 == DivideColumn(f2, "mobile", by)
    IN  IF scale \in {"MTONS", "NORMALIZE"} THEN DivideColumn(f3, "TOTAL", by)
        ELSE full

\* one turn of the loop of _read_dataframe
ScaleColumn(full, col, co2_scale) ==
    IF co2_scale = "MTONS" THEN DivideColumn(full, col, Dec(1, 9))
    ELSE IF co2_scale = "NORMALIZE"
    THEN DivideColumn(full, col, ColumnMax(full, "total"))
    ELSE full

\* summary_graphs._read_dataframe
read_dataframe(co2_scale, rows) ==
    LET full0 == ConcatRealizations(rows, SummaryColumns, provider_realizations(rows))
        full == WithTotal(full0, "total")
        f1 == ScaleColumn(full, "dissolved", co2_scale)
        f2 == ScaleColumn(f1, "trapped", co2_scale)
        f3 == ScaleColumn(f2, "mobile", co2_scale)
    IN  ScaleColumn(f3, "total", co2_scale)

DataFrame(rows) == [kind |-> "DataFrame", rows |-> rows]

\* ---- inputs
RealIds == {0, 1}
Places == {<<"all", "all">>, <<"Z1", "all">>, <<"all", "R1">>}
\* <<amount, total>> of a row
Cells ==
    {<<Zero, Zero>>, <<Dec(1, 10), Zero>>, <<Dec(1, 10), Dec(1, 0)>>,
     <<Dec(3, 0), Dec(2, 0)>>}
ContainmentRows ==
    {[REAL |-> r, date |-> 1, zone |-> p[1], region |-> p[2], phase |-> "total",
      amount |-> c[1], total |-> c[2]] :
        r \in RealIds, p \in Places, c \in Cells}
SummaryAmounts == {Zero, Dec(1, 0)}
SummaryRows ==
    [REAL : RealIds, DATE : {1}, dissolved : SummaryAmounts,
     trapped : SummaryAmounts, mobile : SummaryAmounts]
\* the provider lists the rows realization by realization
ByRealization(rows) ==
    \A i, j \in DOMAIN rows : i < j => rows[i].REAL <= rows[j].REAL
Tables(Rows, n) ==
    {t \in UNION {[1..k -> Rows] : k \in 1..n} : ByRealization(t)}
DefaultTable ==
    <<[REAL |-> 0, date |-> 1, zone |-> "all", region |-> "all",
       phase |-> "total", amount |-> Dec(1, 10), total |-> Dec(2, 0)]>>
DefaultSummary ==
    <<[REAL |-> 0, DATE |-> 1, dissolved |-> Dec(1, 0), trapped |-> Zero,
       mobile |-> Dec(1, 0)]>>

InitScale ==
    /\ call = NoCall
    /\ ret = NoCall
    /\ names = DefaultAttributeNames
    /\ \/ table \in Tables(ContainmentRows, MaxRows) /\ smry = DefaultSummary
       \/ table = DefaultTable /\ smry \in Tables(SummaryRows, MaxSmryRows)
    /\ cache = NoCache
    /\ warned = NoWarnings
    /\ stored_info = NoInfo
    /\ surface_cache = NoSurfaces
    /\ summed_co2 = NoSums
    /\ files = NoFiles
    /\ polygons = None

\* extract_dataframe dividing the provider's own frame in place
ExtractDataframeInPlace ==
    /\ Idle
    /\ \E realization \in AllRealizations(table), scale \in Scales :
         /\ call' = [op |-> "extract_dataframe", realization |-> realization,
                     scale |-> scale]
         /\ ret' = DataFrame(extract_dataframe(realization, scale, cache, table))
         /\ cache' = lru_after(scale, cache, table)
         /\ table' = [i \in DOMAIN table |->
                         IF table[i].REAL = realization
                         THEN [table[i] EXCEPT !.amount =
                                 FDiv(@, cached_scale_factor(scale, cache, table))]
                         ELSE table[i]]
    /\ UNCHANGED <<names, smry, files, polygons,
                 warned, stored_info, surface_cache, summed_co2>>

ExtractDataframe ==
    /\ Idle
    /\ \E realization \in AllRealizations(table), scale \in Scales :
         /\ call' = [op |-> "extract_dataframe", realization |-> realization,
                     scale |-> scale]
         /\ ret' = DataFrame(extract_dataframe(realization, scale, cache, table))
         /\ cache' = lru_after(scale, cache, table)
    /\ UNCHANGED <<names, table, smry, files, polygons,
                 warned, stored_info, surface_cache, summed_co2>>

ExtractCondensedDataframe ==
    /\ Idle
    /\ \E scale \in Scales :
         /\ call' = [op |-> "extract_condensed_dataframe", scale |-> scale]
         /\ ret' = DataFrame(extract_condensed_dataframe(scale, table))
    /\ UNCHANGED <<names, table, smry, cache, files, polygons,
                 warned, stored_info, surface_cache, summed_co2>>

UnsmryExtract ==
    /\ Idle
    /\ \E scale \in Scales :
         /\ call' = [op |-> "UnsmryDataProvider.extract", scale |-> scale]
         /\ ret' = DataFrame(unsmry_extract(scale, smry))
    /\ UNCHANGED <<names, table, smry, cache, files, polygons,
                 warned, stored_info, surface_cache, summed_co2>>

ReadDataframe ==
    /\ Idle
    /\ \E scale \in Scales :
         /\ call' = [op |-> "_read_dataframe", scale |-> scale]
         /\ ret' = DataFrame(read_dataframe(scale, smry))
    /\ UNCHANGED <<names, table, smry, cache, files, polygons,
                 warned, stored_info, surface_cache, summed_co2>>

NextScale ==
    \/ ExtractDataframe
    \/ ExtractCondensedDataframe
    \/ UnsmryExtract
    \/ ReadDataframe
    \/ Return

SpecScale == InitScale /\ [][NextScale]_vars

(***************************************************************************)
(* Claims about the scales (checked under SpecScale).                      *)
(***************************************************************************)
IsExtract == call.op = "extract_dataframe"
IsCondensed == call.op = "extract_condensed_dataframe"
IsUnsmryExtract == call.op = "UnsmryDataProvider.extract"
IsReadDataframe == call.op = "_read_dataframe"

\* the rows of the table a containment extraction returns, unscaled
SourceRows ==
    LET OfRealization(r) == r.REAL = call.realization
        Whole(r) == r.zone = "all" /\ r.region = "all"
    IN  IF IsExtract THEN SelectSeq(table, OfRealization)
        ELSE SelectSeq(table, Whole)

SummaryTotal(r) == FAdd(FAdd(r.dissolved, r.trapped), r.mobile)
\* the maximum of the total column over the whole unscaled dataset
TableTotalMax == FMax({table[i].total : i \in DOMAIN table})
SummaryTotalMax == FMax({SummaryTotal(smry[i]) : i \in DOMAIN smry})
\* the name the summary reader gives its total column
TotalName == IF IsUnsmryExtract THEN "TOTAL" ELSE "total"

\* every amount of the containment rows returned is the source amount
\* divided by `by`, the row otherwise as in the table
AmountsDividedBy(by) ==
    /\ Len(ret.rows) = Len(SourceRows)
    /\ \A i \in DOMAIN ret.rows :
          ret.rows[i] = [SourceRows[i] EXCEPT !.amount = FDiv(@, by)]

\* every amount column of the summary rows returned is the source value
\* divided by `by` (the summary rows are listed realization by realization)
SummaryDividedBy(by) ==
    /\ Len(ret.rows) = Len(smry)
    /\ \A i \in DOMAIN ret.rows :
          /\ ret.rows[i].REAL = smry[i].REAL
          /\ ret.rows[i].dissolved = FDiv(smry[i].dissolved, by)
          /\ ret.rows[i].trapped = FDiv(smry[i].trapped, by)
          /\ ret.rows[i].mobile = FDiv(smry[i].mobile, by)
          /\ ret.rows[i][TotalName] = FDiv(SummaryTotal(smry[i]), by)

\* C5: under the normalized scale every amount returned, on every
\* extraction path, is the unscaled value divided by the maximum of the
\* total column over the whole unscaled dataset (all realizations, all
\* rows, not only the rows that survive the filter).  Stated for datasets
\* whose totals are all positive.
C5_NormalizedByDatasetMax ==
    /\ ((IsExtract \/ IsCondensed) /\ call.scale = "NORMALIZE"
          /\ \A i \in DOMAIN table : table[i].total # Zero) =>
          AmountsDividedBy(TableTotalMax)
    /\ ((IsUnsmryExtract \/ IsReadDataframe) /\ call.scale = "NORMALIZE"
          /\ \A i \in DOMAIN smry : SummaryTotal(smry[i]) # Zero) =>
          SummaryDividedBy(SummaryTotalMax)

FreshResult ==
    IF IsExtract \/ IsCondensed
    THEN [i \in DOMAIN SourceRows |->
            [SourceRows[i] EXCEPT !.amount =
                IF call.scale = "KG" THEN @
                ELSE IF call.scale = "MTONS" THEN FDiv(@, Dec(1, 9))
                ELSE IF IsExtract THEN FDiv(@, TableTotalMax)
                ELSE FDiv(@, FMax({SourceRows[j].total : j \in DOMAIN SourceRows}))]]
    ELSE ret.rows

C8_ZeroMaxLeavesAmounts ==
    /\ ((IsExtract \/ IsCondensed) /\ call.scale = "NORMALIZE"
          /\ TableTotalMax = Zero) =>
          /\ ret.rows = SourceRows
          /\ \A i \in DOMAIN ret.rows : IsFinite(ret.rows[i].amount)
    /\ ((IsUnsmryExtract \/ IsReadDataframe) /\ call.scale = "NORMALIZE"
          /\ SummaryTotalMax = Zero) =>
          /\ SummaryDividedBy(One)
          /\ \A i \in DOMAIN ret.rows :
                /\ IsFinite(ret.rows[i].dissolved)
                /\ IsFinite(ret.rows[i].trapped)
                /\ IsFinite(ret.rows[i].mobile)
                /\ IsFinite(ret.rows[i][TotalName])

\* C14: extract_condensed returns exactly the rows of the containment
\* table, over all realizations and in the table's order, whose zone is
\* "all" and whose region is "all": no row with a specific zone or region
\* is returned, no row with both "all" is dropped, and a returned row
\* differs from its source row in the amount column only (raw: not at all,
\* mega: divided by 1e9).
C14_CondensedRows ==
    IsCondensed =>
        /\ \A i \in DOMAIN ret.rows :
              ret.rows[i].zone = "all" /\ ret.rows[i].region = "all"
        /\ Len(ret.rows) =
              Cardinality({i \in DOMAIN table :
                  table[i].zone = "all" /\ table[i].region = "all"})
        /\ \A i \in DOMAIN ret.rows :
              [ret.rows[i] EXCEPT !.amount = SourceRows[i].amount] = SourceRows[i]
        /\ call.scale = "KG" => ret.rows = SourceRows
        /\ call.scale = "MTONS" => AmountsDividedBy(Dec(1, 9))

\* two realizations, one whole row kept and one row of zone Z1 left out
C14_Witness ==
    /\ IsCondensed
    /\ call.scale = "MTONS"
    /\ Len(table) = 2
    /\ table[1].REAL = 0 /\ table[1].zone = "Z1"
    /\ table[2].REAL = 1 /\ table[2].zone = "all" /\ table[2].region = "all"
    /\ table[2].amount = Dec(1, 10)
    /\ Len(ret.rows) = 1
    /\ ret.rows[1].REAL = 1
    /\ ret.rows[1].amount = Dec(1, 1)

(***************************************************************************)
(*                The menu of the containment table                        *)
(* Under SpecMenu the rows of `table` carry the columns of the containment *)
(* file: a row is a function of the column names the provider lists.      *)
(***************************************************************************)
MaxMenuRows == 3

\* provider.column_names() (REAL is the provider's own key of a row)
column_names(rows) == DOMAIN rows[1] \ {"REAL"}

required_columns == <<"date", "amount", "phase", "containment", "zone", "region">>

\* required_columns of the files of old ccs-scripts, no containment column
missing_columns_without_containment(col_names) ==
    LET Missing(col) == col \notin col_names /\ col # "containment"
    IN  SelectSeq(required_columns, Missing)

\* [col for col in required_columns if col not in col_names]
missing_columns(col_names) ==
    LET Missing(col) == col \notin col_names
    IN  SelectSeq(required_columns, Missing)

\* raise KeyError(f"Missing expected columns ... in realization ...")
MissingExpectedColumns(missing, realization) ==
    [kind |-> "raise", exc |-> "KeyError", missing |-> missing,
     realization |-> realization]

\* for zone in list(df["zone"]): if zone not in zones: zones.append(zone)
RECURSIVE menu_values(_, _)
menu_values(values, seen) ==
    IF values = <<>> THEN seen
    ELSE menu_values(Tail(values),
            IF Head(values) \notin Range(seen) THEN Append(seen, Head(values))
            ELSE seen)

\* the four phases unless gas is among the phases
menu_phases_unless_gas(phase) ==
    IF "gas" \notin Range(phase)
    THEN <<"total", "free_gas", "trapped_gas", "aqueous">>
    ELSE <<"total", "gas", "aqueous">>

\* if "free_gas" in list(df["phase"])
menu_phases(phase) ==
    IF "free_gas" \in Range(phase)
    THEN <<"total", "free_gas", "trapped_gas", "aqueous">>
    ELSE <<"total", "gas", "aqueous">>

Column(df, column) == [i \in DOMAIN df |-> df[i][column]]

\* ContainmentDataProvider.get_menu_options
get_menu_options(rows) ==
    LET col_names == column_names(rows)
        realization == provider_realizations(rows)[1]
        df == get_column_data(rows, col_names, {realization})
        missing == missing_columns(col_names)
    IN  IF Len(missing) > 0 THEN MissingExpectedColumns(missing, realization)
        ELSE LET zones == menu_values(Column(df, "zone"), <<"all">>)
                 regions == menu_values(Column(df, "region"), <<"all">>)
             IN  [kind |-> "MenuOptions",
                  zones |-> IF Len(zones) > 1 THEN zones ELSE <<>>,
                  regions |-> IF Len(regions) > 1 THEN regions ELSE <<>>,
                  phases |-> menu_phases(Column(df, "phase"))]

\* ---- inputs: <<zone, region, phase>> of a row
MenuCells ==
    {<<"all", "all", "total">>, <<"Z1", "all", "gas">>,
     <<"Z2", "R1", "free_gas">>, <<"all", "R1", "aqueous">>,
     <<"Z1", "R1", "free_gas">>, <<"Z2", "all", "gas">>}
MenuRows ==
    {[REAL |-> r, date |-> "2030-01-01", amount |-> One,
      containment |-> "contained", zone |-> c[1], region |-> c[2],
      phase |-> c[3]] : r \in RealIds, c \in MenuCells}
\* the rows of a file that lacks some of the columns
WithColumns(rows, columns) ==
    [i \in DOMAIN rows |-> [c \in columns \cup {"REAL"} |-> rows[i][c]]]
DefaultMenuTable ==
    <<[REAL |-> 0, date |-> "2030-01-01", amount |-> One,
       containment |-> "contained", zone |-> "all", region |-> "all",
       phase |-> "total"],
      [REAL |-> 1, date |-> "2030-01-01", amount |-> One,
       containment |-> "contained", zone |-> "Z1", region |-> "all",
       phase |-> "free_gas"]>>

InitMenu ==
    /\ call = NoCall
    /\ ret = NoCall
    /\ names = DefaultAttributeNames
    /\ \/ table \in Tables(MenuRows, MaxMenuRows)
       \/ \E columns \in SUBSET Range(required_columns) :
             table = WithColumns(DefaultMenuTable, columns)
    /\ smry = DefaultSummary
    /\ cache = NoCache
    /\ warned = NoWarnings
    /\ stored_info = NoInfo
    /\ surface_cache = NoSurfaces
    /\ summed_co2 = NoSums
    /\ files = NoFiles
    /\ polygons = None

GetMenuOptions ==
    /\ Idle
    /\ call' = [op |-> "get_menu_options"]
    /\ ret' = get_menu_options(table)
    /\ UNCHANGED <<names, table, smry, cache, files, polygons,
                 warned, stored_info, surface_cache, summed_co2>>

NextMenu == GetMenuOptions \/ Return

SpecMenu == InitMenu /\ [][NextMenu]_vars

(***************************************************************************)
(* Claims about the menu (checked under SpecMenu).                         *)
(***************************************************************************)
IsMenu == call.op = "get_menu_options"
\* the rows get_menu_options inspects: those of the first realization
InspectedRows ==
    LET OfFirst(r) == r.REAL = provider_realizations(table)[1]
    IN  SelectSeq(table, OfFirst)
HasRequiredColumns == Range(required_columns) \subseteq column_names(table)

\* the values of a column in order of first appearance, each once
RECURSIVE FirstAppearances(_)
FirstAppearances(values) ==
    IF values = <<>> THEN <<>>
    ELSE LET front == FirstAppearances(SubSeq(values, 1, Len(values) - 1))
             last == values[Len(values)]
         IN  IF last \in Range(front) THEN front ELSE Append(front, last)

\* the menu list the rule gives for a column of the inspected rows
MenuList(column) ==
    LET values == Column(InspectedRows, column)
        Specific(v) == v # "all"
    IN  IF Cardinality(Range(values)) = 1 THEN <<>>
        ELSE <<"all">> \o SelectSeq(FirstAppearances(values), Specific)

\* C11: the zones list of the menu is empty when the rows of the inspected
\* realization hold a single distinct zone value, and otherwise it is "all"
\* followed by the distinct zone values other than "all", each once, in
\* order of first appearance; the regions list follows the same rule.
C11_MenuZonesRegions ==
    (IsMenu /\ ret.kind = "MenuOptions") =>
        /\ ret.zones = MenuList("zone")
        /\ ret.regions = MenuList("region")

\* C12: the phases of the menu are total, free_gas, trapped_gas, aqueous
\* if free_gas is among the phases of the inspected realization's rows,
\* and total, gas, aqueous otherwise.
C12_MenuPhases ==
    (IsMenu /\ HasRequiredColumns) =>
        /\ ret.kind = "MenuOptions"
        /\ ret.phases =
              IF \E i \in DOMAIN InspectedRows : InspectedRows[i].phase = "free_gas"
              THEN <<"total", "free_gas", "trapped_gas", "aqueous">>
              ELSE <<"total", "gas", "aqueous">>

\* free_gas in a realization that is not inspected, gas in the one that is
C12_Witness ==
    /\ IsMenu
    /\ ret.kind = "MenuOptions"
    /\ ret.phases = <<"total", "gas", "aqueous">>
    /\ \E i \in DOMAIN table : table[i].phase = "free_gas"
    /\ \E i \in DOMAIN InspectedRows : InspectedRows[i].phase = "gas"

\* C13: when a required column (date, amount, phase, containment, zone,
\* region) is absent from the table the menu fails with the KeyError that
\* names exactly the missing columns and the inspected realization, and
\* no menu is returned.
C13_MenuMissingColumns ==
    (IsMenu /\ ~HasRequiredColumns) =>
        /\ ret.kind = "raise"
        /\ ret.exc = "KeyError"
        /\ Range(ret.missing) = Range(required_columns) \ column_names(table)
        /\ Len(ret.missing) = Cardinality(Range(ret.missing))
        /\ ret.realization = provider_realizations(table)[1]

\* a table without the amount and the containment column
C13_Witness ==
    /\ IsMenu
    /\ column_names(table) = {"date", "phase", "zone", "region"}
    /\ ret.kind = "raise"
    /\ ret.missing = <<"amount", "containment">>
    /\ ret.realization = 0

(***************************************************************************)
(*        The summary figure: the two sources against each other           *)
(* Under SpecFigure `smry` holds the rows of the summary table (DATE and   *)
(* the dissolved, trapped and mobile columns under their roles) and        *)
(* `table` those of the containment table.  Dates are day numbers.         *)
(***************************************************************************)
MaxDate == 2

IndexError == [kind |-> "raise", exc |-> "IndexError"]

\* df[df.REAL == r]
OfRealization(df, r) ==
    LET Is(row) == row.REAL = r
    IN  SelectSeq(df, Is)

\* df[df["phase"] == phase]["amount"]
AmountOfPhase(df, phase) ==
    LET Is(row) == row.phase = phase
    IN  Column(SelectSeq(df, Is), "amount")

\* series.iloc[-1] of a series that is not empty
iloc_last(series) == series[Len(series)]

\* min(df.REAL)
min_real(df) ==
    CHOOSE r \in AllRealizations(df) : \A q \in AllRealizations(df) : r <= q

\* the error taken relative to the containment value
err_percentage_of_containment(containment_last, unsmry_last) ==
    Round2(FDiv(FMul(Dec(1, 2), FAbsDiff(containment_last, unsmry_last)),
                containment_last))

\* np.round(100.0 * abs(containment_last - unsmry_last) / unsmry_last, 2)
err_percentage(containment_last, unsmry_last) ==
    Round2(FDiv(FMul(Dec(1, 2), FAbsDiff(containment_last, unsmry_last)),
                unsmry_last))

\* _colors, by key
colors == {"total", "mobile", "dissolved", "trapped"}

\* _col_names
col_names ==
    [total |-> "total", free_gas |-> "mobile", aqueous |-> "dissolved",
     trapped_gas |-> "trapped"]

\* the four fig.add_scatter of one summary realization
unsmry_traces(sub_df, showlegend, total_err, mobile_err, dissolved_err) ==
    LET Trace(name, column, group, title) ==
            [name |-> name, legendgroup |-> group,
             legendgrouptitle_text |-> title, showlegend |-> showlegend,
             marker_color |-> group, line_dash |-> "solid",
             x |-> Column(sub_df, "DATE"), y |-> Column(sub_df, column)]
    IN  <<Trace(<<"UNSMRY">>, "total", "total", <<"Total", total_err>>),
          Trace(<<"UNSMRY", "mobile">>, "mobile", "mobile",
                <<"Mobile", mobile_err>>),
          Trace(<<"UNSMRY", "dissolved">>, "dissolved", "dissolved",
                <<"Dissolved", dissolved_err>>),
          Trace(<<"UNSMRY", "trapped">>, "trapped", "trapped", <<"Trapped">>)>>

\* for _, sub_df in df_unsmry.groupby("realization"): the legend is shown
\* for the first group only
RECURSIVE unsmry_loop(_, _, _, _, _, _)
unsmry_loop(df_unsmry, keys, showlegend, total_err, mobile_err, dissolved_err) ==
    IF keys = <<>> THEN <<>>
    ELSE LET Is(row) == row.realization = Head(keys)
         IN  unsmry_traces(SelectSeq(df_unsmry, Is), showlegend, total_err,
                           mobile_err, dissolved_err)
               \o unsmry_loop(df_unsmry, Tail(keys), FALSE, total_err,
                              mobile_err, dissolved_err)

\* the phases as groupby sorts them
PhaseOrder == <<"aqueous", "free_gas", "gas", "total", "trapped_gas">>

\* the keys of df_containment.groupby(["REAL", "phase"]), sorted
containment_groups(df_containment) ==
    LET reals == Ascending(AllRealizations(df_containment))
        n == Len(PhaseOrder)
        pairs == [k \in 1..(Len(reals) * n) |->
                    <<reals[((k - 1) \div n) + 1], PhaseOrder[((k - 1) % n) + 1]>>]
        Held(key) == \E i \in DOMAIN df_containment :
                        /\ df_containment[i].REAL = key[1]
                        /\ df_containment[i].phase = key[2]
    IN  SelectSeq(pairs, Held)

\* the fig.add_scatter of one (REAL, phase) group
containment_trace(df_containment, real, phase) ==
    LET Is(row) == row.REAL = real /\ row.phase = phase
        sub_df == SelectSeq(df_containment, Is)
    IN  [name |-> <<"Containment script", phase>>,
         legendgroup |-> col_names[phase],
         legendgrouptitle_text |-> <<>>, showlegend |-> (real = 0),
         marker_color |-> col_names[phase], line_dash |-> "dash",
         x |-> Column(sub_df, "date"), y |-> Column(sub_df, "amount")]

\* summary_graphs.generate_summary_figure
generate_summary_figure(smry_rows, scale, table_rows) ==
    LET df_unsmry == read_dataframe(scale, smry_rows)
        df_containment == extract_condensed_dataframe(scale, table_rows)
        r_min == min_real(df_unsmry)
        unsmry_reference == OfRealization(df_unsmry, r_min)
        unsmry_last_total == iloc_last(Column(unsmry_reference, "total"))
        unsmry_last_mobile == iloc_last(Column(unsmry_reference, "mobile"))
        unsmry_last_dissolved == iloc_last(Column(unsmry_reference, "dissolved"))
        containment_reference == OfRealization(df_containment, r_min)
        total == AmountOfPhase(containment_reference, "total")
        mobile == AmountOfPhase(containment_reference, "free_gas")
        dissolved == AmountOfPhase(containment_reference, "aqueous")
    IN  IF total = <<>> \/ mobile = <<>> \/ dissolved = <<>> THEN IndexError
        ELSE IF \E i \in DOMAIN df_containment :
                    df_containment[i].phase \notin DOMAIN col_names
        THEN Raise("KeyError")
        ELSE LET groups == containment_groups(df_containment)
             IN  [kind |-> "Figure",
                  data |->
                    unsmry_loop(df_unsmry,
                        Ascending({df_unsmry[i].realization : i \in DOMAIN df_unsmry}),
                        TRUE,
                        err_percentage(iloc_last(total), unsmry_last_total),
                        err_percentage(iloc_last(mobile), unsmry_last_mobile),
                        err_percentage(iloc_last(dissolved), unsmry_last_dissolved))
                    \o [k \in DOMAIN groups |->
                          containment_trace(df_containment, groups[k][1],
                                            groups[k][2])]]

\* ---- inputs: the tables are built realization by realization, each
\* realization holding the same dates in the order the file lists them
DateOrders ==
    {o \in UNION {[1..k -> 1..MaxDate] : k \in 1..MaxDate} :
        \A i, j \in DOMAIN o : i # j => o[i] # o[j]}
RealSets == (SUBSET RealIds) \ {{}}

\* <<dissolved, trapped, mobile>> of the summary at a date
SummaryProfiles == {"mass", "no_mobile", "empty"}
SummaryAt(profile, date) ==
    IF profile = "empty" THEN <<Zero, Zero, Zero>>
    ELSE IF profile = "no_mobile" THEN <<Dec(30, 0), Dec(10, 0), Zero>>
    ELSE IF date = MaxDate THEN <<Dec(30, 0), Dec(10, 0), Dec(60, 0)>>
    ELSE <<Dec(date, 0), Dec(date, 0), Dec(date, 0)>>

\* the amount of a phase in the containment table at a date
ContainmentAt(phase, date) ==
    IF date = MaxDate
    THEN (IF phase = "total" THEN Dec(105, 0)
          ELSE IF phase = "aqueous" THEN Dec(33, 0)
          ELSE IF phase = "trapped_gas" THEN Dec(9, 0)
          ELSE Dec(63, 0))
    ELSE (IF phase = "total" THEN Dec(4 * date, 0)
          ELSE IF phase = "aqueous" THEN Dec(date, 0)
          ELSE IF phase = "trapped_gas" THEN Dec(date, 0)
          ELSE Dec(2 * date, 0))

PhaseConventions ==
    {<<"total", "free_gas", "trapped_gas", "aqueous">>, <<"total", "gas", "aqueous">>}

SummaryTable(reals, dates, profile) ==
    LET rs == Ascending(reals)
        n == Len(dates)
    IN  [k \in 1..(Len(rs) * n) |->
            LET date == dates[((k - 1) % n) + 1]
                at == SummaryAt(profile, date)
            IN  [REAL |-> rs[((k - 1) \div n) + 1], DATE |-> date,
                 dissolved |-> at[1], trapped |-> at[2], mobile |-> at[3]]]

\* the whole rows (zone and region "all"), then, if zoned, one row of zone
\* Z1 for every realization
ContainmentTable(reals, dates, phases, zoned) ==
    LET rs == Ascending(reals)
        n == Len(dates)
        m == Len(phases)
        whole == [k \in 1..(Len(rs) * n * m) |->
                    LET date == dates[(((k - 1) \div m) % n) + 1]
                        phase == phases[((k - 1) % m) + 1]
                    IN  [REAL |-> rs[((k - 1) \div (n * m)) + 1], date |-> date,
                         zone |-> "all", region |-> "all", phase |-> phase,
                         amount |-> ContainmentAt(phase, date),
                         total |-> ContainmentAt("total", date)]]
        zones == [k \in 1..Len(rs) |->
                    [REAL |-> rs[k], date |-> dates[1], zone |-> "Z1",
                     region |-> "all", phase |-> "total",
                     amount |-> Dec(1, 3), total |-> Dec(1, 3)]]
    IN  IF zoned THEN whole \o zones ELSE whole

InitFigure ==
    /\ call = NoCall
    /\ ret = NoCall
    /\ names = DefaultAttributeNames
    /\ \E reals \in RealSets, dates \in DateOrders, profile \in SummaryProfiles :
          smry = SummaryTable(reals, dates, profile)
    /\ \E reals \in RealSets, dates \in DateOrders, phases \in PhaseConventions,
          zoned \in BOOLEAN :
          table = ContainmentTable(reals, dates, phases, zoned)
    /\ cache = NoCache
    /\ warned = NoWarnings
    /\ stored_info = NoInfo
    /\ surface_cache = NoSurfaces
    /\ summed_co2 = NoSums
    /\ files = NoFiles
    /\ polygons = None

GenerateSummaryFigure ==
    /\ Idle
    /\ \E scale \in Scales :
         /\ call' = [op |-> "generate_summary_figure", scale |-> scale]
         /\ ret' = generate_summary_figure(smry, scale, table)
    /\ UNCHANGED <<names, table, smry, cache, files, polygons,
                 warned, stored_info, surface_cache, summed_co2>>

NextFigure == GenerateSummaryFigure \/ Return

SpecFigure == InitFigure /\ [][NextFigure]_vars

(***************************************************************************)
(* Claims about the summary figure (checked under SpecFigure).             *)
(***************************************************************************)
IsFigure == call.op = "generate_summary_figure"

\* the rows of the containment table of zone "all" and region "all"
WholeRows ==
    LET Whole(r) == r.zone = "all" /\ r.region = "all"
    IN  SelectSeq(table, Whole)

\* the realizations both sources hold, and the lowest of them
CommonRealizations == AllRealizations(smry) \cap AllRealizations(WholeRows)
Reference ==
    CHOOSE r \in CommonRealizations : \A q \in CommonRealizations : r <= q

\* the two sources at the scale of the call
ScaledSummary == read_dataframe(call.scale, smry)
ScaledContainment == extract_condensed_dataframe(call.scale, table)

\* the series compared and the containment phase each is matched with
ComparedSeries == {"total", "mobile", "dissolved"}
SeriesPhase == [total |-> "total", mobile |-> "free_gas", dissolved |-> "aqueous"]

\* a series of a realization as <<date, value>> pairs, in the order given
SummarySeries(r, series) ==
    LET rows == OfRealization(ScaledSummary, r)
    IN  [i \in DOMAIN rows |-> <<rows[i].DATE, rows[i][series]>>]
ContainmentSeries(r, series) ==
    LET Is(row) == row.REAL = r /\ row.phase = SeriesPhase[series]
        rows == SelectSeq(ScaledContainment, Is)
    IN  [i \in DOMAIN rows |-> <<rows[i].date, rows[i].amount>>]

\* the value a series ends with as listed, and its value at the last date
LastListed(points) == points[Len(points)][2]
LastInTime(points) ==
    LET i == CHOOSE k \in DOMAIN points :
                \A l \in DOMAIN points : points[l][1] <= points[k][1]
    IN  points[i][2]
ListedInTime(points) ==
    \A i, j \in DOMAIN points : i < j => points[i][1] <= points[j][1]

\* the reference realization is the one the code takes, the lowest of the
\* summary, and the containment table holds its compared phases
ReferenceCompared ==
    /\ CommonRealizations # {}
    /\ \A q \in AllRealizations(smry) : Reference <= q
    /\ \A series \in ComparedSeries : ContainmentSeries(Reference, series) # <<>>

\* the dates of a series
DatesOf(points) == {points[i][1] : i \in DOMAIN points}

\* 100 |c - s| / s to two decimal places
PercentError(c, s) == Round2(FDiv(FMul(Dec(1, 2), FAbsDiff(c, s)), s))

\* the percentage the figure shows in the legend title of a series
ShownPercentage(series) ==
    LET t == CHOOSE t \in Range(ret.data) :
                t.line_dash = "solid" /\ t.legendgroup = series
    IN  t.legendgrouptitle_text[2]

\* C15: the reference realization of the error computation is the lowest
\* realization ID held by both the summary table and the condensed
\* containment table: when the two hold different realizations with a
\* common one, the percentages are computed from the rows of the lowest
\* common realization in both sources.
C15_ReferenceIsLowestCommon ==
    (/\ IsFigure
     /\ CommonRealizations # {}
     /\ \A series \in ComparedSeries : ContainmentSeries(Reference, series) # <<>>) =>
        /\ ret.kind = "Figure"
        /\ \A series \in ComparedSeries :
              ShownPercentage(series) =
                 PercentError(LastListed(ContainmentSeries(Reference, series)),
                              LastListed(SummarySeries(Reference, series)))

\* C16: for total, mobile (phase free_gas) and dissolved (phase aqueous)
\* the percentage shown is 100 |containment - summary| / summary to two
\* decimal places, both values those of the last date at the scale of the
\* call.  Stated for rows listed in date order and a summary value that is
\* not zero.
C16_PercentError ==
    (IsFigure /\ ret.kind = "Figure") =>
        \A series \in ComparedSeries :
            LET cs == ContainmentSeries(Reference, series)
                ss == SummarySeries(Reference, series)
            IN  (/\ ListedInTime(cs) /\ ListedInTime(ss)
                 /\ IsFinite(LastInTime(ss)) /\ LastInTime(ss) # Zero) =>
                    ShownPercentage(series) =
                       PercentError(LastInTime(cs), LastInTime(ss))

\* summary total 100 against containment total 105, raw: 5.0
C16_Witness ==
    /\ IsFigure
    /\ call.scale = "KG"
    /\ ret.kind = "Figure"
    /\ LastInTime(SummarySeries(Reference, "total")) = Dec(100, 0)
    /\ LastInTime(ContainmentSeries(Reference, "total")) = Dec(105, 0)
    /\ ListedInTime(SummarySeries(Reference, "total"))
    /\ Len(ContainmentSeries(Reference, "total")) = 2
    /\ ListedInTime(ContainmentSeries(Reference, "total"))
    /\ ShownPercentage("total") = Dec(5, 0)

\* C17: when the summary value at the last time step is 0 for total,
\* mobile or dissolved the figure is not built: the call fails with the
\* NumericDegenerate error, and no figure is returned whose legend shows
\* an infinite or NaN percentage.
C17_ZeroSummaryFails ==
    IsFigure =>
        /\ (/\ ReferenceCompared
            /\ \E series \in ComparedSeries :
                  LastInTime(SummarySeries(Reference, series)) = Zero) =>
              (ret.kind = "raise" /\ ret.exc = "NumericDegenerate")
        /\ ret.kind = "Figure" =>
              \A series \in ComparedSeries : IsFinite(ShownPercentage(series))

\* C18: the values compared are those of the row with the greatest date of
\* each series of the reference realization, in both sources, in whatever
\* order the provider lists the rows.  Stated for two sources that hold
\* the same dates.
C18_LastInTime ==
    (IsFigure /\ ret.kind = "Figure") =>
        \A series \in ComparedSeries :
            LET cs == ContainmentSeries(Reference, series)
                ss == SummarySeries(Reference, series)
            IN  DatesOf(cs) = DatesOf(ss) =>
                   ShownPercentage(series) =
                      PercentError(LastInTime(cs), LastInTime(ss))

\* the lines of the figure of a source: solid for the summary, dashed for
\* the containment table
Lines(dash) == {k \in DOMAIN ret.data : ret.data[k].line_dash = dash}

\* the legend group a containment phase is matched with
MatchedSeries(phase) ==
    IF phase = "total" THEN "total"
    ELSE IF phase \in {"gas", "free_gas"} THEN "mobile"
    ELSE IF phase = "aqueous" THEN "dissolved"
    ELSE "trapped"

\* the (realization, phase) pairs of the condensed containment data
ContainmentPairs == {<<WholeRows[i].REAL, WholeRows[i].phase>> : i \in DOMAIN WholeRows}

\* C19: the figure holds exactly one solid line per summary realization
\* for each of total, mobile, dissolved and trapped, and exactly one dashed
\* line per (realization, phase) pair of the condensed containment data,
\* whichever phases the table holds (total, gas or free_gas, aqueous,
\* trapped_gas); a containment line lies in the legend group of its matched
\* series, and every legend group shows its legend entry once per source
\* whatever the realization IDs are.  Stated for a reference realization
\* that both sources hold.
C19_CombinedSeries ==
    (/\ IsFigure
     /\ CommonRealizations # {}
     /\ \A q \in AllRealizations(smry) : Reference <= q) =>
        /\ ret.kind = "Figure"
        /\ \A group \in colors :
              /\ Cardinality({k \in Lines("solid") : ret.data[k].legendgroup = group})
                    = Cardinality(AllRealizations(smry))
              /\ Cardinality({k \in Lines("solid") :
                    ret.data[k].legendgroup = group /\ ret.data[k].showlegend}) = 1
        /\ Cardinality(Lines("dash")) = Cardinality(ContainmentPairs)
        /\ \A pair \in ContainmentPairs :
              \E k \in Lines("dash") :
                 /\ ret.data[k].name = <<"Containment script", pair[2]>>
                 /\ ret.data[k].legendgroup = MatchedSeries(pair[2])
                 /\ ret.data[k].y =
                       Column(SelectSeq(ScaledContainment,
                                  LAMBDA row : row.REAL = pair[1] /\ row.phase = pair[2]),
                              "amount")
        /\ \A pair \in ContainmentPairs :
              Cardinality({k \in Lines("dash") :
                 /\ ret.data[k].legendgroup = MatchedSeries(pair[2])
                 /\ ret.data[k].showlegend}) = 1

(***************************************************************************)
(*                     The polygon boundary provider                       *)
(* A polygon file is a table: its column names and its rows.  `files`      *)
(* maps a path to the file found there; a path outside its domain has no   *)
(* file, and opening it raises OSError.  A relative polygon path is        *)
(* joined to the run path of each realization; the path of realization i   *)
(* is written <<"realization", i>> and the absolute one <<"absolute">>.    *)
(***************************************************************************)
MaxPolygonRealization == 3

\* realization_paths(ens_path): the realizations of the ensemble
realization_paths == 1..MaxPolygonRealization

PolygonPaths == {<<"absolute">>} \cup {<<"realization", i>> : i \in realization_paths}

\* read_csv raising OSError for a file that is not there
read_csv(fs, filename) ==
    IF filename \in DOMAIN fs THEN fs[filename] ELSE Raise("OSError")

\* df[[a, b]].values
Values2(df, a, b) ==
    LET ia == CHOOSE k \in DOMAIN df.columns : df.columns[k] = a
        ib == CHOOSE k \in DOMAIN df.columns : df.columns[k] = b
    IN  [i \in DOMAIN df.rows |-> <<df.rows[i][ia], df.rows[i][ib]>>]

\* [gf[["X_UTME", "Y_UTMN"]].values for _, gf in df.groupby("POLY_ID")]
GroupedValues(df) ==
    LET ip == CHOOSE k \in DOMAIN df.columns : df.columns[k] = "POLY_ID"
        ids == Ascending({df.rows[i][ip] : i \in DOMAIN df.rows})
    IN  [g \in DOMAIN ids |->
            LET Is(row) == row[ip] = ids[g]
            IN  Values2([df EXCEPT !.rows = SelectSeq(df.rows, Is)],
                        "X_UTME", "Y_UTMN")]

FeatureCollection(poly_type, coords) ==
    [type |-> "FeatureCollection",
     features |-> <<[type |-> "Feature", properties |-> <<>>,
                     geometry |-> [type |-> poly_type, coordinates |-> coords]]>>]

\* _parse_polygon_file once the file is read: the coordinate columns by
\* the first scheme that fits
polygon_geojson(df) ==
    IF "x" \in Range(df.columns)
    THEN FeatureCollection("Polygon", <<Values2(df, "x", "y")>>)
    ELSE IF "X_UTME" \in Range(df.columns)
    THEN (IF "POLY_ID" \in Range(df.columns)
          THEN LET xyz == GroupedValues(df)
               IN  FeatureCollection("MultiPolygon",
                                     [g \in DOMAIN xyz |-> <<xyz[g]>>])
          ELSE FeatureCollection("Polygon", <<Values2(df, "X_UTME", "Y_UTMN")>>))
    ELSE FeatureCollection("Polygon",
            <<[i \in DOMAIN df.rows |-> SubSeq(df.rows[i], 1, 2)]>>)

Ok(value) == [kind |-> "ok", value |-> value]

\* the file opened with nothing catching the OSError
parse_polygon_file_uncaught(fs, filename) ==
    LET df == read_csv(fs, filename)
    IN  IF Raised(df) THEN df ELSE Ok(Some(polygon_geojson(df)))

\* _parse_polygon_file: None for a file that cannot be opened
parse_polygon_file(fs, filename) ==
    LET df == read_csv(fs, filename)
    IN  IF Raised(df) THEN Ok(None) ELSE Ok(Some(polygon_geojson(df)))

\* pp.is_absolute()
is_absolute(poly_path) == poly_path = <<"absolute">>

\* EnsemblePolygonProvider.__init__; an exception of a parse leaves it
EnsemblePolygonProvider(fs, poly_path, layer_name, layer_id, layer_color) ==
    LET self == [layer_name |-> layer_name, layer_id |-> layer_id,
                 layer_color |-> layer_color, absolute_polygon |-> None,
                 per_real_polygons |-> None]
    IN  IF is_absolute(poly_path)
        THEN LET parsed == parse_polygon_file(fs, poly_path)
             IN  IF Raised(parsed) THEN parsed
                 ELSE Ok([self EXCEPT !.absolute_polygon = parsed.value])
        ELSE LET parsed == [i \in realization_paths |->
                               parse_polygon_file(fs, <<"realization", i>>)]
             IN  IF \E i \in realization_paths : Raised(parsed[i])
                 THEN parsed[CHOOSE i \in realization_paths : Raised(parsed[i])]
                 ELSE Ok([self EXCEPT !.per_real_polygons =
                            Some([i \in realization_paths |-> parsed[i].value])])

\* EnsemblePolygonProvider.geojson_layer
geojson_layer(self, realization) ==
    IF self.absolute_polygon = None /\ self.per_real_polygons = None
    THEN Raise("AttributeError")
    ELSE LET per_real == Get(self.per_real_polygons)
             data == IF self.absolute_polygon # None THEN self.absolute_polygon
                     ELSE IF realization \in DOMAIN per_real
                     THEN per_real[realization]
                     ELSE None
         IN  IF data = None THEN Ok(None)
             ELSE Ok(Some([type |-> "GeoJsonLayer", name |-> self.layer_name,
                           id |-> self.layer_id, data |-> Get(data),
                           stroked |-> FALSE, getFillColor |-> self.layer_color,
                           visible |-> TRUE]))

\* ---- inputs
PolygonFiles ==
    {[kind |-> "DataFrame", columns |-> <<"x", "y">>,
      rows |-> <<<<0, 0>>, <<1, 0>>, <<1, 1>>>>],
     [kind |-> "DataFrame", columns |-> <<"X_UTME", "Y_UTMN", "POLY_ID">>,
      rows |-> <<<<0, 0, 2>>, <<5, 5, 1>>, <<1, 1, 2>>>>],
     [kind |-> "DataFrame", columns |-> <<"Z", "X_UTME", "Y_UTMN">>,
      rows |-> <<<<9, 0, 0>>, <<9, 2, 2>>>>],
     [kind |-> "DataFrame", columns |-> <<"east", "north", "depth">>,
      rows |-> <<<<3, 4, 9>>, <<5, 6, 9>>>>]}
LayerSettings ==
    {<<"Hazardous Polygon", "hazardous-boundary-layer", <<200, 0, 0, 120>>>>,
     <<"Containment Polygon", "license-boundary-layer", <<0, 172, 0, 120>>>>}
\* the realizations a layer is asked for: those of the ensemble and one on
\* either side that the ensemble does not hold
AskedRealizations == 0..(MaxPolygonRealization + 1)

InitPolygon ==
    /\ call = NoCall
    /\ ret = NoCall
    /\ names = DefaultAttributeNames
    /\ table = NoTable
    /\ smry = NoTable
    /\ cache = NoCache
    /\ warned = NoWarnings
    /\ stored_info = NoInfo
    /\ surface_cache = NoSurfaces
    /\ summed_co2 = NoSums
    /\ \E present \in SUBSET PolygonPaths :
          files \in [present -> PolygonFiles]
    /\ polygons = None

ConstructPolygonProvider ==
    /\ Idle
    /\ polygons = None
    /\ \E poly_path \in {<<"absolute">>, <<"relative">>}, layer \in LayerSettings :
         LET made == EnsemblePolygonProvider(files, poly_path, layer[1],
                                             layer[2], layer[3])
         IN  /\ call' = [op |-> "EnsemblePolygonProvider", poly_path |-> poly_path]
             /\ ret' = made
             /\ polygons' = IF Raised(made) THEN None ELSE Some(made.value)
    /\ UNCHANGED <<names, table, smry, cache, files,
                 warned, stored_info, surface_cache, summed_co2>>

GeojsonLayer ==
    /\ Idle
    /\ polygons # None
    /\ \E realization \in AskedRealizations :
         /\ call' = [op |-> "geojson_layer", realization |-> realization]
         /\ ret' = geojson_layer(Get(polygons), realization)
    /\ UNCHANGED <<names, table, smry, cache, files, polygons,
                 warned, stored_info, surface_cache, summed_co2>>

NextPolygon == ConstructPolygonProvider \/ GeojsonLayer \/ Return

SpecPolygon == InitPolygon /\ [][NextPolygon]_vars

(***************************************************************************)
(* Claims about the polygon provider (checked under SpecPolygon).          *)
(***************************************************************************)
IsConstruct == call.op = "EnsemblePolygonProvider"
IsLayer == call.op = "geojson_layer"
\* the provider was made from a relative polygon path
PerRealization == polygons # None /\ Get(polygons).per_real_polygons # None
Present(realization) == <<"realization", realization>> \in DOMAIN files

\* a geometry collection of one polygon or multi-polygon feature
ValidGeometry(data) ==
    /\ data.type = "FeatureCollection"
    /\ Len(data.features) = 1
    /\ data.features[1].geometry.type \in {"Polygon", "MultiPolygon"}
    /\ Len(data.features[1].geometry.coordinates) >= 1

\* C20: with a relative polygon path the construction of the provider does
\* not fail when the file of a realization is missing; geojson_layer(r) is
\* None for a realization whose file is missing and for a realization the
\* ensemble does not hold, and for every realization whose file is present
\* it is a layer holding the geometry of that realization's file, whatever
\* files the other realizations have.
C20_MissingFileIsNone ==
    /\ (IsConstruct /\ ~is_absolute(call.poly_path)) =>
          /\ ret.kind = "ok"
          /\ polygons = Some(ret.value)
          /\ PerRealization
    /\ (IsLayer /\ PerRealization) =>
          /\ ret.kind = "ok"
          /\ (call.realization \notin realization_paths
                \/ ~Present(call.realization)) => ret.value = None
          /\ (call.realization \in realization_paths
                /\ Present(call.realization)) =>
                /\ ret.value # None
                /\ Get(ret.value).type = "GeoJsonLayer"
                /\ ValidGeometry(Get(ret.value).data)
                /\ Get(ret.value).data =
                      polygon_geojson(files[<<"realization", call.realization>>])

\* realization 3 has no file and maps to None, realization 1 has one
C20_Witness ==
    /\ IsLayer
    /\ PerRealization
    /\ call.realization = 3
    /\ ~Present(3)
    /\ Present(1)
    /\ ret = Ok(None)
    /\ Get(polygons).per_real_polygons = Some([i \in realization_paths |->
          IF Present(i) THEN Some(polygon_geojson(files[<<"realization", i>>]))
          ELSE None])

\* the provider was made from an absolute polygon path
Absolute == polygons # None /\ Get(polygons).per_real_polygons = None

\* C21: with an absolute polygon path geojson_layer returns the same for
\* every realization ID: the layer of the one geometry when the file is
\* present, None when the absolute file is missing; it never raises.
C21_AbsoluteServedToAll ==
    (IsLayer /\ Absolute) =>
        /\ ret.kind = "ok"
        /\ <<"absolute">> \in DOMAIN files =>
              /\ ret.value # None
              /\ Get(ret.value).data = polygon_geojson(files[<<"absolute">>])
        /\ <<"absolute">> \notin DOMAIN files => ret.value = None

(***************************************************************************)
(*                            The map layers                               *)
(***************************************************************************)
\* LayoutLabels: the display options of the options dialog
LayoutLabels ==
    {"SHOW_FAULTPOLYGONS", "SHOW_CONTAINMENT_POLYGON", "SHOW_HAZARDOUS_POLYGON",
     "SHOW_WELLS"}

\* EnsembleWellPicks.geojson_layer: the layer of the picks of a formation,
\* None when the provider has no picks for it
well_picks_geojson_layer(well_pick_provider, realization, selected_wells, formation) ==
    IF formation \in well_pick_provider.formations
    THEN Ok(Some([type |-> "GeoJsonLayer", name |-> "Well Picks",
                  id |-> "well-picks-layer",
                  data |-> <<formation, selected_wells>>]))
    ELSE Ok(None)

\* the layers a list of optional results adds, in order; the first
\* exception ends the call
RECURSIVE append_layers(_, _)
append_layers(layers, results) ==
    IF results = <<>> THEN Ok(layers)
    ELSE IF Raised(Head(results)) THEN Head(results)
    ELSE append_layers(
            IF Head(results).value = None THEN layers
            ELSE Append(layers, Get(Head(results).value)),
            Tail(results))

\* callbacks.create_map_layers
create_map_layers(realizations, formation, surface_data, fault_polygon_url, containment_bounds_provider, haz_bounds_provider, well_pick_provider, plume_extent_data, options_dialog_options, selected_wells) ==
    append_layers(<<>>,
      <<IF surface_data # None
        THEN Ok(Some([type |-> "ColormapLayer", id |-> "colormap-layer",
                      name |-> Get(surface_data).readable_name,
                      image |-> Get(surface_data).img_url]))
        ELSE Ok(None),
        IF fault_polygon_url # None /\ "SHOW_FAULTPOLYGONS" \in options_dialog_options
        THEN Ok(Some([type |-> "FaultPolygonsLayer", name |-> "Fault Polygons",
                      id |-> "fault-polygons-layer",
                      data |-> Get(fault_polygon_url)]))
        ELSE Ok(None),
        IF /\ containment_bounds_provider # None
           /\ Len(realizations) > 0
           /\ "SHOW_CONTAINMENT_POLYGON" \in options_dialog_options
        THEN geojson_layer(Get(containment_bounds_provider), realizations[1])
        ELSE Ok(None),
        IF /\ haz_bounds_provider # None
           /\ Len(realizations) > 0
           /\ "SHOW_HAZARDOUS_POLYGON" \in options_dialog_options
        THEN geojson_layer(Get(haz_bounds_provider), realizations[1])
        ELSE Ok(None),
        IF /\ well_pick_provider # None
           /\ formation # None
           /\ Len(realizations) > 0
           /\ "SHOW_WELLS" \in options_dialog_options
        THEN well_picks_geojson_layer(Get(well_pick_provider), realizations[1],
                                      selected_wells, Get(formation))
        ELSE Ok(None),
        IF plume_extent_data # None
        THEN Ok(Some([type |-> "GeoJsonLayer", name |-> "Plume Contours",
                      id |-> "plume-polygon-layer",
                      data |-> Get(plume_extent_data)]))
        ELSE Ok(None)>>)

\* ---- inputs
\* the polygon files an ensemble may have: none, the absolute one, or the
\* file of realization 1
PolygonDisks ==
    {NoFiles} \cup
    {[path \in {where} |->
        [kind |-> "DataFrame", columns |-> <<"x", "y">>,
         rows |-> <<<<0, 0>>, <<1, 0>>, <<1, 1>>>>]] :
        where \in {<<"absolute">>, <<"realization", 1>>}}

\* the boundary providers _init_*_boundary_provider can hand over
BoundaryProviders(layer) ==
    {None} \cup
    {Some(EnsemblePolygonProvider(fs, poly_path, layer[1], layer[2], layer[3]).value) :
        fs \in PolygonDisks, poly_path \in {<<"absolute">>, <<"relative">>}}
ContainmentSetting ==
    <<"Containment Polygon", "license-boundary-layer", <<0, 172, 0, 120>>>>
HazardousSetting ==
    <<"Hazardous Polygon", "hazardous-boundary-layer", <<200, 0, 0, 120>>>>
WellPickProviders == {None, Some([formations |-> {}]), Some([formations |-> {"F1"}])}
SurfaceDatas == {None, Some([readable_name |-> "Maximum SGAS", img_url |-> "/surface/1"])}
LayerRealizations == {<<>>, <<1>>, <<2, 1>>}

InitLayers ==
    /\ call = NoCall
    /\ ret = NoCall
    /\ names = DefaultAttributeNames
    /\ table = NoTable
    /\ smry = NoTable
    /\ cache = NoCache
    /\ warned = NoWarnings
    /\ stored_info = NoInfo
    /\ surface_cache = NoSurfaces
    /\ summed_co2 = NoSums
    /\ files = NoFiles
    /\ polygons = None

CreateMapLayers ==
    /\ Idle
    /\ \E realizations \in LayerRealizations, formation \in {None, Some("F1")},
          surface_data \in SurfaceDatas,
          fault_polygon_url \in {None, Some("/polygons/1")},
          containment_bounds_provider \in BoundaryProviders(ContainmentSetting),
          haz_bounds_provider \in BoundaryProviders(HazardousSetting),
          well_pick_provider \in WellPickProviders,
          plume_extent_data \in {None, Some("plume")},
          options_dialog_options \in SUBSET LayoutLabels :
         /\ call' = [op |-> "create_map_layers", realizations |-> realizations,
                     formation |-> formation, surface_data |-> surface_data,
                     fault_polygon_url |-> fault_polygon_url,
                     containment_bounds_provider |-> containment_bounds_provider,
                     haz_bounds_provider |-> haz_bounds_provider,
                     well_pick_provider |-> well_pick_provider,
                     plume_extent_data |-> plume_extent_data,
                     options_dialog_options |-> options_dialog_options]
         /\ ret' = create_map_layers(realizations, formation, surface_data,
                      fault_polygon_url, containment_bounds_provider,
                      haz_bounds_provider, well_pick_provider, plume_extent_data,
                      options_dialog_options, <<"W1">>)
    /\ UNCHANGED <<names, table, smry, cache, files, polygons,
                 warned, stored_info, surface_cache, summed_co2>>

NextLayers == CreateMapLayers \/ Return

SpecLayers == InitLayers /\ [][NextLayers]_vars

(***************************************************************************)
(* Claims about the map layers (checked under SpecLayers).                 *)
(***************************************************************************)
IsLayers == call.op = "create_map_layers"

\* the layers by id, in the order of the map
LayerOrder ==
    <<"colormap-layer", "fault-polygons-layer", "license-boundary-layer",
      "hazardous-boundary-layer", "well-picks-layer", "plume-polygon-layer">>
Rank(id) == CHOOSE k \in DOMAIN LayerOrder : LayerOrder[k] = id
LayerIds == {ret.value[k].id : k \in DOMAIN ret.value}

\* a boundary provider has a geometry for the first realization selected
HasGeometry(provider) ==
    /\ provider # None
    /\ Len(call.realizations) > 0
    /\ \/ Get(provider).absolute_polygon # None
       \/ /\ Get(provider).per_real_polygons # None
          /\ call.realizations[1] \in DOMAIN Get(Get(provider).per_real_polygons)
          /\ Get(Get(provider).per_real_polygons)[call.realizations[1]] # None

\* C22: create_map_layers returns, for every input, the layers in the one
\* order colormap, fault polygons, containment boundary, hazardous
\* boundary, well picks, plume contour, each at most once; a layer is
\* there exactly when its own input is (surface data, url, provider with
\* a geometry, plume data, its display option on), whatever the other
\* inputs are.
C22_LayerOrder ==
    IsLayers =>
        /\ ret.kind = "ok"
        /\ \A k \in DOMAIN ret.value : ret.value[k].id \in Range(LayerOrder)
        /\ \A k, l \in DOMAIN ret.value :
              k < l => Rank(ret.value[k].id) < Rank(ret.value[l].id)
        /\ "colormap-layer" \in LayerIds <=> call.surface_data # None
        /\ "fault-polygons-layer" \in LayerIds <=>
              /\ call.fault_polygon_url # None
              /\ "SHOW_FAULTPOLYGONS" \in call.options_dialog_options
        /\ "license-boundary-layer" \in LayerIds <=>
              /\ HasGeometry(call.containment_bounds_provider)
              /\ "SHOW_CONTAINMENT_POLYGON" \in call.options_dialog_options
        /\ "hazardous-boundary-layer" \in LayerIds <=>
              /\ HasGeometry(call.haz_bounds_provider)
              /\ "SHOW_HAZARDOUS_POLYGON" \in call.options_dialog_options
        /\ "well-picks-layer" \in LayerIds <=>
              /\ call.well_pick_provider # None
              /\ call.formation # None
              /\ Len(call.realizations) > 0
              /\ Get(call.formation) \in Get(call.well_pick_provider).formations
              /\ "SHOW_WELLS" \in call.options_dialog_options
        /\ "plume-polygon-layer" \in LayerIds <=> call.plume_extent_data # None

(***************************************************************************)
(* The containment graphs: callbacks.generate_containment_figures and the  *)
(* graph callback update_graphs of the plugin (SpecGraphs).                *)
(***************************************************************************)
MaxWarnings == 2

\* warnings.warn(message)
warn(log, message) == Append(log, message)

\* generate_co2_volume_figure, generate_co2_time_containment_figure and
\* generate_co2_time_containment_one_realization_figure: each returns its
\* figure or raises KeyError for a column or key it does not find.
FigureOutcome(name, found) == IF found THEN Ok(name) ELSE Raise("KeyError")

\* `found[k]` tells whether the k-th figure function finds its columns.
\* The try block stops at the first KeyError; the handler warns and
\* raises the same exception again.
generate_containment_figures(found, co2_scale, realization, y_limits, containment_info, log) ==
    LET figs == [k \in 1..3 |-> FigureOutcome(<<"fig", k - 1>>, found[k])]
    IN  IF \E k \in 1..3 : Raised(figs[k])
        THEN [result |-> figs[CHOOSE k \in 1..3 :
                                 Raised(figs[k]) /\ \A j \in 1..(k - 1) : ~Raised(figs[j])],
              warned |-> warn(log, "Could not generate CO2 figures")]
        ELSE [result |-> Ok(<<figs[1].value, figs[2].value, figs[3].value>>),
              warned |-> log]

GraphSource == {"CONTAINMENT", "UNSMRY"}
no_update == "no_update"

\* The callback hands generate_containment_figures two of its five
\* positional arguments and generate_unsmry_figures two of its three, so
\* either call raises TypeError before the function body runs; nothing in
\* the callback catches an exception.
update_graphs(ensemble, source, co2_scale, co2_table_providers, unsmry_providers) ==
    IF source = "CONTAINMENT" /\ ensemble \in co2_table_providers
    THEN Raise("TypeError")
    ELSE IF source = "UNSMRY" /\ ensemble \in unsmry_providers
    THEN Raise("TypeError")
    ELSE Ok([figs |-> <<no_update, no_update, no_update>>,
             styles |-> <<"none", "none", "none">>])

\* ---- inputs
FoundColumns == [1..3 -> BOOLEAN]
YLimits == {<<None, None>>, <<Some(0), Some(1)>>}
GraphRealizations == 1..2
ProviderSets == {{}, {"iter-0"}, {"iter-0", "iter-1"}}
GraphEnsembles == {"iter-0", "iter-1"}

InitGraphs ==
    /\ call = NoCall
    /\ ret = NoCall
    /\ names = DefaultAttributeNames
    /\ table = NoTable
    /\ smry = NoTable
    /\ cache = NoCache
    /\ warned = NoWarnings
    /\ stored_info = NoInfo
    /\ surface_cache = NoSurfaces
    /\ summed_co2 = NoSums
    /\ files = NoFiles
    /\ polygons = None

GenerateContainmentFigures ==
    /\ Idle
    /\ Len(warned) < MaxWarnings
    /\ \E found \in FoundColumns, co2_scale \in Scales,
          realization \in GraphRealizations, y_limits \in YLimits :
         LET out == generate_containment_figures(found, co2_scale, realization,
                                                 y_limits, "phase", warned)
         IN  /\ call' = [op |-> "generate_containment_figures", found |-> found,
                         co2_scale |-> co2_scale, realization |-> realization,
                         y_limits |-> y_limits]
             /\ ret' = out.result
             /\ warned' = out.warned
    /\ UNCHANGED <<names, table, smry, cache, files, polygons,
                   stored_info, surface_cache, summed_co2>>

UpdateGraphs ==
    /\ Idle
    /\ \E ensemble \in GraphEnsembles, source \in GraphSource, co2_scale \in Scales,
          co2_table_providers \in ProviderSets, unsmry_providers \in ProviderSets :
         /\ call' = [op |-> "update_graphs", ensemble |-> ensemble,
                     source |-> source, co2_scale |-> co2_scale,
                     co2_table_providers |-> co2_table_providers,
                     unsmry_providers |-> unsmry_providers]
         /\ ret' = update_graphs(ensemble, source, co2_scale,
                                 co2_table_providers, unsmry_providers)
    /\ UNCHANGED <<names, table, smry, cache, files, polygons,
                   warned, stored_info, surface_cache, summed_co2>>

NextGraphs == GenerateContainmentFigures \/ UpdateGraphs \/ Return

SpecGraphs == InitGraphs /\ [][NextGraphs]_vars

(***************************************************************************)
(* Claims about the containment graphs (checked under SpecGraphs).         *)
(***************************************************************************)
IsContainmentFigures == call.op = "generate_containment_figures"
ColumnMissing == \E k \in 1..3 : ~call.found[k]

\* C24: a KeyError while the containment figures are generated does not
\* leave the interaction: the figures come back in a placeholder state and
\* a warning has been logged.
C24_KeyErrorDegrades ==
    (IsContainmentFigures /\ ColumnMissing) =>
        /\ ~Raised(ret)
        /\ Len(warned) > 0

(***************************************************************************)
(* The table providers: initialization.init_table_provider (SpecTables).   *)
(***************************************************************************)
MaxEnsembles == 3

WARNING_THRESHOLD_CSV_FILE_SIZE_MB == 100

\* _find_max_file_size_mb: the largest of the files the pattern matches,
\* 0 when it matches none (sizes in whole MB)
find_max_file_size_mb(sizes) ==
    IF sizes = {} THEN 0 ELSE CHOOSE m \in sizes : \A x \in sizes : x <= m

\* EnsembleTableProviderFactory.create_from_per_realization_csv_file: the
\* provider of the ensemble, or the exception the load raises
create_from_per_realization_csv_file(ens, load) ==
    IF load = "ok" THEN Ok([ensemble |-> ens]) ELSE Raise(load)

\* the variant whose except clause names KeyError only
RECURSIVE init_table_provider_key_error_only(_, _, _, _, _)
init_table_provider_key_error_only(ensemble_roots, sizes, loads, providers, log) ==
    IF ensemble_roots = <<>> THEN [result |-> Ok(providers), warned |-> log]
    ELSE LET ens == Head(ensemble_roots)
             max_size_mb == find_max_file_size_mb(sizes[ens])
             sized == IF max_size_mb > WARNING_THRESHOLD_CSV_FILE_SIZE_MB
                      THEN warn(log, "Some CSV-files are very large")
                      ELSE log
             created == create_from_per_realization_csv_file(ens, loads[ens])
         IN  IF ~Raised(created)
             THEN init_table_provider_key_error_only(
                      Tail(ensemble_roots), sizes, loads,
                      [e \in DOMAIN providers \cup {ens} |->
                          IF e = ens THEN created.value ELSE providers[e]],
                      sized)
             ELSE IF created.exc \in {"KeyError"}
             THEN init_table_provider_key_error_only(
                      Tail(ensemble_roots), sizes, loads, providers,
                      warn(sized, "Did not load"))
             ELSE [result |-> created, warned |-> sized]

\* The loop over ensemble_roots.items(), from `providers` and `log` as they
\* are before the ensemble at the head: the size warning, then the load; a
\* KeyError or ValueError is logged and the loop goes on, any other
\* exception leaves the function.
RECURSIVE init_table_provider(_, _, _, _, _)
init_table_provider(ensemble_roots, sizes, loads, providers, log) ==
    IF ensemble_roots = <<>> THEN [result |-> Ok(providers), warned |-> log]
    ELSE LET ens == Head(ensemble_roots)
             max_size_mb == find_max_file_size_mb(sizes[ens])
             sized == IF max_size_mb > WARNING_THRESHOLD_CSV_FILE_SIZE_MB
                      THEN warn(log, "Some CSV-files are very large")
                      ELSE log
             created == create_from_per_realization_csv_file(ens, loads[ens])
         IN  IF ~Raised(created)
             THEN init_table_provider(
                      Tail(ensemble_roots), sizes, loads,
                      [e \in DOMAIN providers \cup {ens} |->
                          IF e = ens THEN created.value ELSE providers[e]],
                      sized)
             ELSE IF created.exc \in {"KeyError", "ValueError"}
             THEN init_table_provider(
                      Tail(ensemble_roots), sizes, loads, providers,
                      warn(sized, "Did not load"))
             ELSE [result |-> created, warned |-> sized]

\* ---- inputs
EnsembleNames == {"iter-0", "iter-1", "iter-2"}
\* the keys of ensemble_roots in the order the dict lists them
EnsembleRoots ==
    {s \in UNION {[1..n -> EnsembleNames] : n \in 0..MaxEnsembles} :
        \A i, j \in DOMAIN s : i # j => s[i] # s[j]}
FileSizes == {{}, {1}, {1, 250}}
Loads == {"ok", "KeyError", "ValueError", "OSError"}
NoProviders == [e \in {} |-> [ensemble |-> e]]

InitTables ==
    /\ call = NoCall
    /\ ret = NoCall
    /\ names = DefaultAttributeNames
    /\ table = NoTable
    /\ smry = NoTable
    /\ cache = NoCache
    /\ warned = NoWarnings
    /\ stored_info = NoInfo
    /\ surface_cache = NoSurfaces
    /\ summed_co2 = NoSums
    /\ files = NoFiles
    /\ polygons = None

InitTableProvider ==
    /\ Idle
    /\ Len(warned) < MaxWarnings
    /\ \E ensemble_roots \in EnsembleRoots, sizes \in [EnsembleNames -> FileSizes],
          loads \in [EnsembleNames -> Loads] :
         LET out == init_table_provider(ensemble_roots, sizes, loads,
                                        NoProviders, warned)
         IN  /\ call' = [op |-> "init_table_provider",
                         ensemble_roots |-> ensemble_roots,
                         sizes |-> sizes, loads |-> loads]
             /\ ret' = out.result
             /\ warned' = out.warned
    /\ UNCHANGED <<names, table, smry, cache, files, polygons,
                   stored_info, surface_cache, summed_co2>>

NextTables == InitTableProvider \/ Return

SpecTables == InitTables /\ [][NextTables]_vars

(***************************************************************************)
(* Claims about the table providers (checked under SpecTables).            *)
(***************************************************************************)
IsTables == call.op = "init_table_provider"
Listed == {call.ensemble_roots[i] : i \in DOMAIN call.ensemble_roots}
Loaded == {e \in Listed : call.loads[e] = "ok"}
SchemaFailed == {e \in Listed : call.loads[e] \in {"KeyError", "ValueError"}}

\* C25: when every load that fails fails with KeyError or ValueError,
\* init_table_provider returns a mapping; its keys are exactly the
\* ensembles whose load succeeded, wherever the failing ones stand in the
\* iteration, and each maps to the provider created for it.
C25_FailureIsLocal ==
    (IsTables /\ Listed = Loaded \cup SchemaFailed) =>
        /\ ~Raised(ret)
        /\ DOMAIN ret.value = Loaded
        /\ \A e \in Loaded : ret.value[e] = [ensemble |-> e]

\* a KeyError and a ValueError between two ensembles that load
C25_Witness ==
    /\ IsTables /\ Len(call.ensemble_roots) = 3
    /\ call.loads[call.ensemble_roots[1]] = "ok"
    /\ call.loads[call.ensemble_roots[2]] = "ValueError"
    /\ call.loads[call.ensemble_roots[3]] = "ok"
    /\ ~Raised(ret) /\ Cardinality(DOMAIN ret.value) = 2

(***************************************************************************)
(* The visualization info: callbacks.process_visualization_info            *)
(* (SpecInfo).                                                             *)
(***************************************************************************)
MaxClicks == 2
MaxSurfaces == 2

\* the variant that compares the threshold without the test for None
process_visualization_info_any_threshold(n_clicks, threshold, unit, info, cached) ==
    LET unit_differs == unit # info.unit
        threshold_differs == threshold # info.threshold
        change == unit_differs \/ threshold_differs
    IN  [stored_info |-> [change |-> change,
                          n_clicks |-> n_clicks,
                          unit |-> unit,
                          threshold |-> threshold],
         cache |-> IF change THEN {} ELSE cached]

\* Returns the dict as the call leaves it and the cache as the call leaves
\* it: `change` reset, n_clicks stored, unit and threshold stored where
\* they differ, the cache cleared when `change` was set.
process_visualization_info(n_clicks, threshold, unit, info, cached) ==
    LET unit_differs == unit # info.unit
        threshold_differs == ~IsNone(threshold) /\ threshold # info.threshold
        change == unit_differs \/ threshold_differs
    IN  [stored_info |-> [change |-> change,
                          n_clicks |-> n_clicks,
                          unit |-> IF unit_differs THEN unit ELSE info.unit,
                          threshold |-> IF threshold_differs THEN threshold
                                        ELSE info.threshold],
         cache |-> IF change THEN {} ELSE cached]

\* ---- inputs
MassUnits == {"kg", "tons"}
InfoThresholds == {None, Some(Dec(3, -1)), Some(Dec(5, -1))}
Clicks == 0..MaxClicks
Surfaces == 1..MaxSurfaces

InitInfo ==
    /\ call = NoCall
    /\ ret = NoCall
    /\ names = DefaultAttributeNames
    /\ table = NoTable
    /\ smry = NoTable
    /\ cache = NoCache
    /\ warned = NoWarnings
    /\ \E unit \in MassUnits, threshold \in InfoThresholds :
          stored_info = [NoInfo EXCEPT !.unit = unit, !.threshold = threshold]
    /\ surface_cache = NoSurfaces
    /\ summed_co2 = NoSums
    /\ files = NoFiles
    /\ polygons = None

\* a surface is published and the flask cache memoizes it
CacheSurface ==
    /\ Idle
    /\ \E surface \in Surfaces \ surface_cache :
         /\ call' = [op |-> "cache", surface |-> surface]
         /\ ret' = Ok(surface)
         /\ surface_cache' = surface_cache \cup {surface}
    /\ UNCHANGED <<names, table, smry, cache, files, polygons,
                   warned, stored_info, summed_co2>>

ProcessVisualizationInfo ==
    /\ Idle
    /\ \E n_clicks \in Clicks, threshold \in InfoThresholds, unit \in MassUnits :
         LET out == process_visualization_info(n_clicks, threshold, unit,
                                               stored_info, surface_cache)
         IN  /\ call' = [op |-> "process_visualization_info",
                         n_clicks |-> n_clicks, threshold |-> threshold,
                         unit |-> unit, stored_info |-> stored_info,
                         cache |-> surface_cache]
             /\ ret' = Ok(out.stored_info)
             /\ stored_info' = out.stored_info
             /\ surface_cache' = out.cache
    /\ UNCHANGED <<names, table, smry, cache, files, polygons,
                   warned, summed_co2>>

NextInfo == CacheSurface \/ ProcessVisualizationInfo \/ Return

SpecInfo == InitInfo /\ [][NextInfo]_vars

(***************************************************************************)
(* Claims about the visualization info (checked under SpecInfo).           *)
(***************************************************************************)
IsInfo == call.op = "process_visualization_info"
\* the unit passed differs from the stored one, or a threshold is passed
\* and differs from the stored one (`call.stored_info` is the dict as the
\* call found it)
SettingChanged ==
    \/ call.unit # call.stored_info.unit
    \/ call.threshold # None /\ call.threshold # call.stored_info.threshold

\* C26: in every call of a sequence that threads stored_info, the cache is
\* cleared exactly when the unit or a non-None threshold differs from the
\* stored one, and is otherwise left as it was; the returned `change` flag
\* tells whether it was cleared; afterwards the stored unit is the unit
\* passed, the stored threshold the threshold passed or, when None was
\* passed, the one stored before (hence the most recent non-None one), and
\* n_clicks the value passed.
C26_CacheClearedOnChange ==
    IsInfo =>
        /\ surface_cache = (IF SettingChanged THEN {} ELSE call.cache)
        /\ ret.value.change = SettingChanged
        /\ ret.value = stored_info
        /\ stored_info.unit = call.unit
        /\ stored_info.threshold = (IF call.threshold = None
                                    THEN call.stored_info.threshold
                                    ELSE call.threshold)
        /\ stored_info.n_clicks = call.n_clicks

\* a filled cache cleared by a new threshold under the same unit
C26_Witness ==
    /\ IsInfo /\ call.cache # {} /\ surface_cache = {}
    /\ call.unit = call.stored_info.unit
    /\ call.threshold # None /\ call.stored_info.threshold # None
    /\ ret.value.change

(***************************************************************************)
(* Claim about the basis of the plume (checked under SpecAddress).         *)
(***************************************************************************)
\* C27: in a map update for a plume attribute, the name property_origin
\* gives for the plume polygon (contour_data's `property`) is the
\* basis_attribute of the Truncated address derived for the contour
\* surface, under every attribute-name mapping.
C27_SameBasis ==
    (MapAddressed /\ call.attribute \in PlumeAttributes) =>
        Get(ret.contour_data).property = Get(ret.address).basis_attribute

(***************************************************************************)
(* The summed masses: callbacks.process_summed_mass (SpecSummed).          *)
(***************************************************************************)
MaxSummed == 2

\* f"{formation}-{realization[0]}-{datestr}-{attribute}-{unit}"
summed_co2_key(formation, realization, datestr, attribute, unit) ==
    <<formation, realization[1], datestr, attribute, unit>>

\* Returns the exception raised, or the surface data and the dict as the
\* call leaves them.  The key is built first, from realization[0].
process_summed_mass(formation, realization, datestr, attribute, summed_mass, surf_data, summed, unit) ==
    IF Len(realization) = 0 THEN Raise("IndexError")
    ELSE LET key == summed_co2_key(formation, realization, datestr, attribute, unit)
             stored == IF ~IsNone(summed_mass) /\ key \notin DOMAIN summed
                       THEN [k \in DOMAIN summed \cup {key} |->
                                IF k = key THEN Get(summed_mass) ELSE summed[k]]
                       ELSE summed
         IN  IF Len(realization) = 1 /\ attribute \in MassAttributes
             THEN Ok([surf_data |->
                          IF key \in DOMAIN stored /\ ~IsNone(surf_data)
                          THEN Some([Get(surf_data) EXCEPT !.readable_name =
                                        <<@, unit, "Total", stored[key]>>])
                          ELSE surf_data,
                      summed_co2 |-> stored])
             ELSE Ok([surf_data |-> surf_data, summed_co2 |-> summed])

\* ---- inputs
SummedRealizations == {<<>>, <<1>>, <<2>>, <<1, 2>>}
SummedAttributes == {"MASS", "FREE", "MAX_SGAS"}
SummedMasses == {None, Some(Dec(5, 0)), Some(Dec(7, 0))}

InitSummed ==
    /\ call = NoCall
    /\ ret = NoCall
    /\ names = DefaultAttributeNames
    /\ table = NoTable
    /\ smry = NoTable
    /\ cache = NoCache
    /\ warned = NoWarnings
    /\ stored_info = NoInfo
    /\ surface_cache = NoSurfaces
    /\ summed_co2 = NoSums
    /\ files = NoFiles
    /\ polygons = None

ProcessSummedMass ==
    /\ Idle
    /\ Cardinality(DOMAIN summed_co2) <= MaxSummed
    /\ \E formation \in Formations, realization \in SummedRealizations,
          datestr \in Dates, attribute \in SummedAttributes,
          summed_mass \in SummedMasses, surf_data \in SurfaceDatas,
          unit \in MassUnits :
         LET out == process_summed_mass(formation, realization, datestr, attribute,
                                        summed_mass, surf_data, summed_co2, unit)
         IN  /\ call' = [op |-> "process_summed_mass", formation |-> formation,
                         realization |-> realization, datestr |-> datestr,
                         attribute |-> attribute, summed_mass |-> summed_mass,
                         surf_data |-> surf_data, summed_co2 |-> summed_co2,
                         unit |-> unit]
             /\ ret' = out
             /\ summed_co2' = IF Raised(out) THEN summed_co2 ELSE out.value.summed_co2
    /\ UNCHANGED <<names, table, smry, cache, files, polygons,
                   warned, stored_info, surface_cache>>

NextSummed == ProcessSummedMass \/ Return

SpecSummed == InitSummed /\ [][NextSummed]_vars

(***************************************************************************)
(* Claims about the summed masses (checked under SpecSummed).              *)
(***************************************************************************)
IsSummed == call.op = "process_summed_mass"
CallKey ==
    <<call.formation, call.realization[1], call.datestr, call.attribute, call.unit>>
\* the conditions under which the call adds its key
Adds ==
    /\ Len(call.realization) = 1
    /\ call.attribute \in MassAttributes
    /\ call.summed_mass # None
    /\ CallKey \notin DOMAIN call.summed_co2

\* C28: every call returns without error, the empty realization list
\* included; the entries the dict held before the call are kept with their
\* values; the call adds its key, with the summed mass, exactly when one
\* realization is selected, the attribute is a mass kind, the summed mass
\* is not None and the key was absent; otherwise the dict is as it was
\* (`call.summed_co2` is the dict as the call found it).
C28_WriteOnce ==
    IsSummed =>
        /\ ~Raised(ret)
        /\ \A k \in DOMAIN call.summed_co2 :
              k \in DOMAIN summed_co2 /\ summed_co2[k] = call.summed_co2[k]
        /\ IF Adds
           THEN /\ DOMAIN summed_co2 = DOMAIN call.summed_co2 \cup {CallKey}
                /\ summed_co2[CallKey] = Get(call.summed_mass)
           ELSE summed_co2 = call.summed_co2

====
